---- MODULE Spec2Model ----
(***************************************************************************)
(* Model of the vscode-epubcheck extension's EpubCheckRunner: one call of  *)
(* run(epubDir, save) or generateOnly(epubDir), the child process it       *)
(* spawns, the 'close' / 'error' / stderr 'data' handlers it registers,    *)
(* and the file system operations (protect, locate, restore, cleanup) the  *)
(* handlers perform.                                                       *)
(***************************************************************************)
EXTENDS Integers, Sequences, FiniteSets, TLC

VARIABLES
    config,          \* settings read at the start of the call (javaPath, timeout)
    clock,           \* value of Date.now() during the synchronous part of the call
    fs,              \* file system: path -> content
    mode,            \* "idle" | "run" | "generateOnly", or the scenario being explored
    save,            \* the save argument of run (TRUE for generateOnly)
    jsonTmpFile,     \* run's temp result file path (Undefined for generateOnly)
    defaultEpubPath, \* canonical output path, Undefined when save is false
    protectedPath,   \* value returned by protectExistingEpub
    child,           \* "none" | "spawnfail" | "running"
    errorsEmitted,   \* number of 'error' events delivered so far
    closeCode,       \* "none" until 'close' is delivered, then its code
    eventsDone,      \* TRUE once the child emits no further event
    stderr,          \* chunks accumulated by the stderr 'data' handler
    timedOut,        \* the handlers' shared timedOut flag
    outcome,         \* value the promise settled with, Undefined while pending
    settledBy,       \* history: handler whose resolve() settled the promise
    timedOutAtClose, \* history: value of timedOut when the close handler ran
    jsonRead,        \* history: readFileSync returned the temp result file's content
    unlinkFailed,    \* history: the latest cleanupTmpFile hit a failing unlinkSync
    restoreCalled,   \* history: restoreProtectedEpub ran for an existing backup
    original,        \* history: a file existed at the canonical path before the call
    toolWroteResult, \* history: the tool finished writing a result file that parses
    atReturn,        \* history: the temp result file when run's promise settled
    unitPc,          \* position of a helper called on its own: "off" | "input" | "done"
    unitArgs,        \* arguments of that helper
    calls,           \* invocations of run in flight at once: id -> its local state
    runs,            \* number of consecutive generateOnly calls that have returned
    spawned,         \* what spawn() was called with: command, args, options.timeout
    diagnosticCollection, \* DiagnosticsProvider: file -> diagnostics shown for it
    fileReads        \* history: files read by readFileLines in the latest pass

vars == <<config, clock, fs, mode, save, jsonTmpFile, defaultEpubPath,
          protectedPath, child, errorsEmitted, closeCode, eventsDone,
          stderr, timedOut, outcome, settledBy, timedOutAtClose, jsonRead,
          unlinkFailed, restoreCalled, original, toolWroteResult, atReturn,
          unitPc, unitArgs, calls, runs, spawned, diagnosticCollection,
          fileReads>>

----------------------------------------------------------------------------
(* Bounds *)

MaxSiblings == 1      \* pre-existing "<base> (k).epub" names: k in 2..MaxSiblings+1
MaxErrorEvents == 1   \* 'error' events one child may emit
MaxStderrChunks == 1  \* stderr 'data' events one child may emit

----------------------------------------------------------------------------
(* Values *)

Undefined == [kind |-> "undefined"]
Absent == [kind |-> "absent"]
Epub(data) == [kind |-> "epub", data |-> data]

\* A result file the tool may leave behind: parses says whether JSON.parse
\* accepts the text, hasMessages whether the parsed value has a messages array.
JsonText(parses, hasMessages, messages) ==
    [kind |-> "text", parses |-> parses, hasMessages |-> hasMessages,
     messages |-> messages]

ToolJsonOutputs ==
    { JsonText(TRUE, TRUE, <<>>),
      JsonText(TRUE, TRUE, <<"WARNING", "INFO">>),
      JsonText(TRUE, TRUE, <<"USAGE", "ERROR">>),
      JsonText(TRUE, TRUE, <<"FATAL">>),
      JsonText(TRUE, FALSE, <<>>),
      JsonText(FALSE, FALSE, <<>>) }

\* Date.now() values a call may see
Clocks == {1}

Configs ==
    { [javaPath |-> "java", timeout |-> 120, jarPath |-> "epubcheck.jar"],
      [javaPath |-> "/opt/jdk/bin/java", timeout |-> 30,
       jarPath |-> "/opt/epubcheck/epubcheck.jar"] }

EpubDir == [dir |-> <<"parent">>, name |-> "book"]

\* A path: directory, base name without extension (stem plus an optional
\* timestamp), optional " (n)" suffix (n = 0: none) and extension.
Path(dir, stem, ts, n, ext) ==
    [dir |-> dir, stem |-> stem, ts |-> ts, n |-> n, ext |-> ext]

GetDefaultEpubPath(epubDir) == Path(epubDir.dir, epubDir.name, 0, 0, ".epub")

InsidePath(epubDir) ==
    Path(Append(epubDir.dir, epubDir.name), epubDir.name, 0, 0, ".epub")

JsonTmpFile(now) == Path(<<"tmp">>, "epubcheck-", now, 0, ".json")

ProtectPath(epubPath, now) ==
    Path(epubPath.dir, ".epubcheck-protect-", now, 0, epubPath.ext)

Numbered(p, counter) == [p EXCEPT !.n = counter]

Canonical == GetDefaultEpubPath(EpubDir)
Inside == InsidePath(EpubDir)

\* the names getUniquePath may have to look at: one more than can be taken
SiblingNames == { Numbered(Canonical, k) : k \in 2..(MaxSiblings + 3) }

Paths ==
    {Canonical, Inside} \cup SiblingNames
      \cup { JsonTmpFile(t) : t \in Clocks }
      \cup { ProtectPath(Canonical, t) : t \in Clocks }

ExistsSync(f, p) == p \in DOMAIN f /\ f[p] # Absent

\* fs.renameSync(a, b) when it does not throw: b is replaced.
RenameSync(f, a, b) == [f EXCEPT ![b] = f[a], ![a] = Absent]

----------------------------------------------------------------------------
(* Helpers of EpubCheckRunner, as functions of the file system *)

\* Mutant: the file is copied to the hidden name and stays where it was.
ProtectExistingEpubCopies(f, epubPath, now, renameOk) ==
    IF epubPath = Undefined \/ ~ExistsSync(f, epubPath)
    THEN [fs |-> f, path |-> Undefined]
    ELSE LET tmpPath == ProtectPath(epubPath, now)
         IN  IF renameOk
             THEN [fs |-> [f EXCEPT ![tmpPath] = f[epubPath]], path |-> tmpPath]
             ELSE [fs |-> f, path |-> Undefined]

\* protectExistingEpub(epubPath); renameOk: fs.renameSync does not throw.
ProtectExistingEpub(f, epubPath, now, renameOk) ==
    IF epubPath = Undefined \/ ~ExistsSync(f, epubPath)
    THEN [fs |-> f, path |-> Undefined]
    ELSE LET tmpPath == ProtectPath(epubPath, now)
         IN  IF renameOk
             THEN [fs |-> RenameSync(f, epubPath, tmpPath), path |-> tmpPath]
             ELSE [fs |-> f, path |-> Undefined]

RECURSIVE UniqueFrom(_, _, _)
\* the do/while loop of getUniquePath, entered with the given counter
UniqueFrom(f, filePath, counter) ==
    LET candidate == Numbered(filePath, counter)
    IN  IF ExistsSync(f, candidate)
        THEN UniqueFrom(f, filePath, counter + 1)
        ELSE candidate

\* Mutant: the candidate is built after the counter was incremented.
GetUniquePathOffByOne(f, filePath) ==
    IF ~ExistsSync(f, filePath) THEN filePath
    ELSE Numbered(filePath, UniqueFrom(f, filePath, 2).n + 1)

\* getUniquePath(filePath)
GetUniquePath(f, filePath) ==
    IF ~ExistsSync(f, filePath) THEN filePath ELSE UniqueFrom(f, filePath, 2)

\* Mutant: the backup is renamed straight onto the target, getUniquePath forgotten.
RestoreProtectedEpubOverwrite(f, protPath, targetPath, r1Ok, r2Ok) ==
    IF protPath = Undefined \/ ~ExistsSync(f, protPath)
    THEN f
    ELSE IF r1Ok THEN RenameSync(f, protPath, targetPath) ELSE f

\* Mutant: the fallback renames onto the target without looking at it.
RestoreProtectedEpubFallbackUnchecked(f, protPath, targetPath, r1Ok, r2Ok) ==
    IF protPath = Undefined \/ ~ExistsSync(f, protPath)
    THEN f
    ELSE LET restorePath == GetUniquePath(f, targetPath)
         IN  IF r1Ok
             THEN RenameSync(f, protPath, restorePath)
             ELSE IF r2Ok
                  THEN RenameSync(f, protPath, targetPath)
                  ELSE f

\* restoreProtectedEpub(protectedPath, targetPath); r1Ok, r2Ok: the first and
\* the fallback fs.renameSync do not throw.
RestoreProtectedEpub(f, protPath, targetPath, r1Ok, r2Ok) ==
    IF protPath = Undefined \/ ~ExistsSync(f, protPath)
    THEN f
    ELSE LET restorePath == GetUniquePath(f, targetPath)
         IN  IF r1Ok
             THEN RenameSync(f, protPath, restorePath)
             ELSE IF ~ExistsSync(f, targetPath) /\ r2Ok
                  THEN RenameSync(f, protPath, targetPath)
                  ELSE f

\* Mutant: the target path is reported although the move failed.
FindGeneratedEpubReportsTarget(f, epubDir, targetPath, protPath, mvOk, r1Ok, r2Ok) ==
    IF targetPath = Undefined
    THEN [fs |-> f, path |-> Undefined, restored |-> FALSE]
    ELSE LET insidePath == InsidePath(epubDir)
             moved == IF ExistsSync(f, insidePath) /\ mvOk
                      THEN RenameSync(f, insidePath, targetPath)
                      ELSE f
             found == IF ExistsSync(f, insidePath) \/ ExistsSync(f, targetPath)
                      THEN targetPath
                      ELSE Undefined
         IN  [fs |-> RestoreProtectedEpub(moved, protPath, targetPath, r1Ok, r2Ok),
              path |-> found,
              restored |-> protPath # Undefined /\ ExistsSync(moved, protPath)]

\* Mutant: the target path is looked at before the project directory.
FindGeneratedEpubTargetFirst(f, epubDir, targetPath, protPath, mvOk, r1Ok, r2Ok) ==
    IF targetPath = Undefined
    THEN [fs |-> f, path |-> Undefined, restored |-> FALSE]
    ELSE LET insidePath == InsidePath(epubDir)
             atTarget == ExistsSync(f, targetPath)
             moved == IF ~atTarget /\ ExistsSync(f, insidePath) /\ mvOk
                      THEN RenameSync(f, insidePath, targetPath)
                      ELSE f
             found == IF atTarget THEN targetPath
                      ELSE IF ExistsSync(f, insidePath)
                      THEN IF mvOk THEN targetPath ELSE insidePath
                      ELSE Undefined
         IN  [fs |-> RestoreProtectedEpub(moved, protPath, targetPath, r1Ok, r2Ok),
              path |-> found,
              restored |-> protPath # Undefined /\ ExistsSync(moved, protPath)]

\* findGeneratedEpub(epubDir, targetPath, protectedPath); mvOk: the move of
\* the artifact out of the project directory does not throw.
\* restored: restoreProtectedEpub was reached with a backup that exists.
FindGeneratedEpub(f, epubDir, targetPath, protPath, mvOk, r1Ok, r2Ok) ==
    IF targetPath = Undefined
    THEN [fs |-> f, path |-> Undefined, restored |-> FALSE]
    ELSE LET insidePath == InsidePath(epubDir)
             moved == IF ExistsSync(f, insidePath) /\ mvOk
                      THEN RenameSync(f, insidePath, targetPath)
                      ELSE f
             found == IF ExistsSync(f, insidePath)
                      THEN IF mvOk THEN targetPath ELSE insidePath
                      ELSE IF ExistsSync(f, targetPath) THEN targetPath
                           ELSE Undefined
         IN  [fs |-> RestoreProtectedEpub(moved, protPath, targetPath, r1Ok, r2Ok),
              path |-> found,
              restored |-> protPath # Undefined /\ ExistsSync(moved, protPath)]

\* Mutant: the temp file is never unlinked.
CleanupTmpFileNoop(f, filePath, unlinkOk) == f

\* cleanupTmpFile(filePath); unlinkOk: fs.unlinkSync does not throw.
CleanupTmpFile(f, filePath, unlinkOk) ==
    IF ExistsSync(f, filePath) /\ unlinkOk
    THEN [f EXCEPT ![filePath] = Absent]
    ELSE f

\* whether that call of cleanupTmpFile swallowed an unlink failure
CleanupFailed(f, filePath, unlinkOk) == ExistsSync(f, filePath) /\ ~unlinkOk

----------------------------------------------------------------------------
(* Outcomes (ValidationResult) *)

Result(success, parsed, error, outPath) ==
    [success |-> success, epubDir |-> EpubDir, epubCheckResult |-> parsed,
     error |-> error, epubOutputPath |-> outPath]

TimeoutError(cfg) == [msg |-> "timed out", timeout |-> cfg.timeout,
                      setting |-> "epubcheck.timeout"]
\* Mutant: the message names the default launcher, not the configured one.
JavaNotFoundErrorDefaultPath(cfg) ==
    [msg |-> "Java not found", javaPath |-> "java",
     setting |-> "epubcheck.javaPath"]

JavaNotFoundError(cfg) == [msg |-> "Java not found", javaPath |-> cfg.javaPath,
                           setting |-> "epubcheck.javaPath"]
FailedToRunError(err) == [msg |-> "Failed to run EPUBCheck", cause |-> err.code]

\* stderr.trim() on the chunk sequence: whitespace chunks at both ends go
RECURSIVE TrimStart(_)
TrimStart(s) == IF s # <<>> /\ Head(s) = " " THEN TrimStart(Tail(s)) ELSE s
RECURSIVE TrimEnd(_)
TrimEnd(s) ==
    IF s # <<>> /\ s[Len(s)] = " " THEN TrimEnd(SubSeq(s, 1, Len(s) - 1)) ELSE s
Trim(s) == TrimEnd(TrimStart(s))

\* Mutant: the exit code is appended whatever its value.
NoValidOutputErrorAlwaysCode(err, code) ==
    [msg |-> "failed to produce valid output",
     details |-> IF err # <<>> THEN Trim(err) ELSE <<>>,
     hasDetails |-> err # <<>>,
     exitCode |-> code]

\* run's catch branch: the message grows with stderr and the exit code
NoValidOutputError(err, code) ==
    [msg |-> "failed to produce valid output",
     details |-> IF err # <<>> THEN Trim(err) ELSE <<>>,
     hasDetails |-> err # <<>>,
     exitCode |-> IF code # "null" /\ code # "0" THEN code ELSE "none"]

ExitCodeError(err, code) ==
    [msg |-> "failed with exit code", exitCode |-> code, details |-> err]
AbortedError == [msg |-> "aborted EPUB generation due to validation errors"]
NotGeneratedError == [msg |-> "did not generate an EPUB file"]

ErrMsg(o) == IF o = Undefined \/ o.error = Undefined THEN "none" ELSE o.error.msg

\* resolve(value) of the promise: only the first call settles it
Resolve(current, value) == IF current = Undefined THEN value ELSE current

\* Mutant: !code in place of code === null, exit code 0 counts as a timeout.
IsTimeoutCloseFalsy(flag, code) == flag \/ code = "null" \/ code = "0"

\* Mutant: the timedOut flag is not consulted.
IsTimeoutCloseNullOnly(flag, code) == code = "null"

\* the close handlers' first test: timedOut || code === null
IsTimeoutClose(flag, code) == flag \/ code = "null"

\* Mutant: the errno is compared with the wrong name.
IsNotFoundWrongCode(err) == err.code = "ENOTFOUND"

\* the error handlers' tests on err
IsNotFound(err) == err.code = "ENOENT"
IsTimeoutSignal(err) == err.code = "ETIMEDOUT" \/ err.killed

\* Mutant: only FATAL messages count as errors.
HasErrorsFatalOnly(parsed) ==
    \E i \in 1..Len(parsed.messages) : parsed.messages[i] = "FATAL"

\* result.messages.some(m => m.severity === 'FATAL' || m.severity === 'ERROR')
HasErrors(parsed) ==
    \E i \in 1..Len(parsed.messages) : parsed.messages[i] \in {"FATAL", "ERROR"}

----------------------------------------------------------------------------
(* Initial states: the settings, the clock and the files present before the
   call.  The canonical path is free or holds the user's ORIGINAL artifact;
   any of the names "<base> (k).epub", k in 2..MaxSiblings+1, may be taken. *)

InitialFs(orig, taken) ==
    [p \in Paths |->
        IF p = Canonical /\ orig THEN Epub("ORIGINAL")
        ELSE IF p \in { Numbered(Canonical, k) : k \in taken } THEN Epub("OTHER")
        ELSE Absent]

Idle ==
    /\ save = FALSE
    /\ spawned = Undefined
    /\ diagnosticCollection = <<>>
    /\ fileReads = <<>>
    /\ jsonTmpFile = Undefined
    /\ defaultEpubPath = Undefined
    /\ protectedPath = Undefined
    /\ child = "none"
    /\ errorsEmitted = 0
    /\ closeCode = "none"
    /\ eventsDone = FALSE
    /\ stderr = <<>>
    /\ timedOut = FALSE
    /\ outcome = Undefined
    /\ settledBy = "none"
    /\ timedOutAtClose = FALSE
    /\ jsonRead = FALSE
    /\ unlinkFailed = FALSE
    /\ restoreCalled = FALSE
    /\ toolWroteResult = FALSE
    /\ atReturn = Undefined

Init ==
    /\ config \in Configs
    /\ clock \in Clocks
    /\ \E orig \in BOOLEAN, taken \in SUBSET (2..(MaxSiblings + 1)) :
          /\ fs = InitialFs(orig, taken)
          /\ original = orig
    /\ mode = "idle"
    /\ unitPc = "off"
    /\ unitArgs = Undefined
    /\ calls = Undefined
    /\ runs = 0
    /\ Idle

----------------------------------------------------------------------------
(* What the two entry points hand to spawn() *)

\* a string of the argument list; paths are the path values of the model
Str(s) == [str |-> s]

\* Mutant: --save is passed whatever the save argument.
RunArgsAlwaysSave(jar, epubDir, jsonPath, sv) ==
    <<Str("-jar"), Str(jar), Str("-mode"), Str("exp"), epubDir,
      Str("--json"), jsonPath, Str("--save")>>

\* run: args, with '--save' pushed when save is set
RunArgs(jar, epubDir, jsonPath, sv) ==
    LET args == <<Str("-jar"), Str(jar), Str("-mode"), Str("exp"), epubDir,
                  Str("--json"), jsonPath>>
    IN  IF sv THEN Append(args, Str("--save")) ELSE args

\* generateOnly: args
GenArgs(jar, epubDir) ==
    <<Str("-jar"), Str(jar), Str("-mode"), Str("exp"), epubDir, Str("--save")>>

\* { timeout: timeout * 1000 }
SpawnTimeout(cfg) == cfg.timeout * 1000

----------------------------------------------------------------------------
(* The synchronous part of the two entry points: protect, then spawn.
   spawnOk = FALSE: the launcher is missing, the child reports ENOENT. *)

\* Mutant: when the protective rename fails the tool is not started.
RunStopsOnProtectFailure(sv, spawnOk, renameOk) ==
    /\ mode = "idle"
    /\ LET dflt == IF sv THEN GetDefaultEpubPath(EpubDir) ELSE Undefined
           prot == IF sv THEN ProtectExistingEpub(fs, dflt, clock, renameOk)
                         ELSE [fs |-> fs, path |-> Undefined]
           failed == sv /\ ExistsSync(fs, dflt) /\ prot.path = Undefined
       IN  /\ jsonTmpFile' = JsonTmpFile(clock)
           /\ defaultEpubPath' = dflt
           /\ protectedPath' = prot.path
           /\ fs' = prot.fs
           /\ spawned' = IF failed THEN Undefined
                         ELSE [command |-> config.javaPath,
                               args |-> RunArgs(config.jarPath, EpubDir,
                                                JsonTmpFile(clock), sv),
                               timeout |-> SpawnTimeout(config)]
           /\ child' = IF failed THEN "none"
                       ELSE IF spawnOk THEN "running" ELSE "spawnfail"
    /\ mode' = "run"
    /\ save' = sv
    /\ UNCHANGED <<config, clock, errorsEmitted, closeCode, eventsDone,
                   stderr, timedOut, outcome, settledBy, timedOutAtClose,
                   jsonRead, unlinkFailed, restoreCalled, original,
                   toolWroteResult, atReturn, unitPc, unitArgs, calls, runs,
                   diagnosticCollection, fileReads>>

Run(sv, spawnOk, renameOk) ==
    /\ mode = "idle"
    /\ LET dflt == IF sv THEN GetDefaultEpubPath(EpubDir) ELSE Undefined
           prot == IF sv THEN ProtectExistingEpub(fs, dflt, clock, renameOk)
                         ELSE [fs |-> fs, path |-> Undefined]
       IN  /\ jsonTmpFile' = JsonTmpFile(clock)
           /\ defaultEpubPath' = dflt
           /\ protectedPath' = prot.path
           /\ fs' = prot.fs
    /\ mode' = "run"
    /\ save' = sv
    /\ spawned' = [command |-> config.javaPath,
                   args |-> RunArgs(config.jarPath, EpubDir, JsonTmpFile(clock), sv),
                   timeout |-> SpawnTimeout(config)]
    /\ child' = IF spawnOk THEN "running" ELSE "spawnfail"
    /\ UNCHANGED <<config, clock, errorsEmitted, closeCode, eventsDone,
                   stderr, timedOut, outcome, settledBy, timedOutAtClose,
                   jsonRead, unlinkFailed, restoreCalled, original,
                   toolWroteResult, atReturn, unitPc, unitArgs, calls, runs,
                   diagnosticCollection, fileReads>>

GenerateOnly(spawnOk, renameOk) ==
    /\ mode = "idle"
    /\ LET dflt == GetDefaultEpubPath(EpubDir)
           prot == ProtectExistingEpub(fs, dflt, clock, renameOk)
       IN  /\ defaultEpubPath' = dflt
           /\ protectedPath' = prot.path
           /\ fs' = prot.fs
    /\ mode' = "generateOnly"
    /\ save' = TRUE
    /\ spawned' = [command |-> config.javaPath,
                   args |-> GenArgs(config.jarPath, EpubDir),
                   timeout |-> SpawnTimeout(config)]
    /\ child' = IF spawnOk THEN "running" ELSE "spawnfail"
    /\ UNCHANGED <<config, clock, jsonTmpFile, errorsEmitted, closeCode,
                   eventsDone, stderr, timedOut, outcome, settledBy,
                   timedOutAtClose, jsonRead, unlinkFailed, restoreCalled,
                   original, unitPc, unitArgs, toolWroteResult, atReturn,
                   calls, runs, diagnosticCollection, fileReads>>

----------------------------------------------------------------------------
(* The child process: the tool writes its result file (--json) and the
   artifact (--save) while it runs, and its stderr reaches the 'data'
   handler.  It emits 'error' and 'close' events; 'close' comes once. *)

Alive == mode \in {"run", "generateOnly"} /\ child = "running" /\ closeCode = "none"

ToolWriteJson(doc) ==
    /\ Alive
    /\ mode = "run"
    /\ IF ExistsSync(fs, jsonTmpFile) THEN ~fs[jsonTmpFile].parses ELSE TRUE
    /\ fs[jsonTmpFile] # doc
    /\ fs' = [fs EXCEPT ![jsonTmpFile] = doc]
    /\ toolWroteResult' = (toolWroteResult \/ doc.parses)
    /\ UNCHANGED <<config, clock, mode, save, jsonTmpFile, defaultEpubPath,
                   protectedPath, child, errorsEmitted, closeCode, eventsDone,
                   stderr, timedOut, outcome, settledBy, timedOutAtClose,
                   jsonRead, unlinkFailed, restoreCalled, original, unitPc,
                   unitArgs, atReturn, calls, runs, spawned,
                   diagnosticCollection, fileReads>>

\* --save places the artifact inside the project directory or as its sibling
ToolWriteEpub(place) ==
    /\ Alive
    /\ save
    /\ fs[Inside] # Epub("NEW") /\ fs[Canonical] # Epub("NEW")
    /\ fs' = [fs EXCEPT ![place] = Epub("NEW")]
    /\ UNCHANGED <<config, clock, mode, save, jsonTmpFile, defaultEpubPath,
                   protectedPath, child, errorsEmitted, closeCode, eventsDone,
                   stderr, timedOut, outcome, settledBy, timedOutAtClose,
                   jsonRead, unlinkFailed, restoreCalled, original, unitPc,
                   unitArgs, toolWroteResult, atReturn, calls, runs, spawned,
                   diagnosticCollection, fileReads>>

\* proc.stderr.on('data', ...) of run and of generateOnly
OnStderrData(m, data) ==
    /\ Alive
    /\ mode = m
    /\ Len(stderr) < MaxStderrChunks
    /\ stderr' = Append(stderr, data)
    /\ UNCHANGED <<config, clock, fs, mode, save, jsonTmpFile,
                   defaultEpubPath, protectedPath, child, errorsEmitted,
                   closeCode, eventsDone, timedOut, outcome, settledBy,
                   timedOutAtClose, jsonRead, unlinkFailed, restoreCalled,
                   original, toolWroteResult, atReturn, unitPc, unitArgs,
                   calls, runs, spawned, diagnosticCollection, fileReads>>

RunOnStderrData(data) == OnStderrData("run", data)
GenOnStderrData(data) == OnStderrData("generateOnly", data)

ErrorEvents ==
    { [code |-> "ENOENT", killed |-> FALSE],
      [code |-> "ETIMEDOUT", killed |-> FALSE],
      [code |-> "EPERM", killed |-> TRUE],
      [code |-> "EPERM", killed |-> FALSE] }

CloseCodes == {"null", "0", "1", "2", "-2"}

\* A failed spawn reports ENOENT as the child's first event; a spawned child
\* reports other errors (a failed kill, a termination signal) at any time.
CanError(err) ==
    /\ mode \in {"run", "generateOnly"}
    /\ ~eventsDone
    /\ errorsEmitted < MaxErrorEvents
    /\ \/ child = "spawnfail" /\ errorsEmitted = 0 /\ err.code = "ENOENT"
       \/ child = "running" /\ err.code # "ENOENT"

\* 'close' follows the exit of a spawned child (null: ended by a signal) or
\* the ENOENT error of a failed spawn (negative errno as code).
CanClose(code) ==
    /\ mode \in {"run", "generateOnly"}
    /\ ~eventsDone
    /\ closeCode = "none"
    /\ \/ child = "running" /\ code \in {"null", "0", "1", "2"}
       \/ child = "spawnfail" /\ errorsEmitted = 1 /\ code = "-2"

\* The child emits nothing more ('close' may or may not follow an 'error').
ChildEnds ==
    /\ mode \in {"run", "generateOnly"}
    /\ ~eventsDone
    /\ errorsEmitted > 0 \/ closeCode # "none"
    /\ eventsDone' = TRUE
    /\ UNCHANGED <<config, clock, fs, mode, save, jsonTmpFile,
                   defaultEpubPath, protectedPath, child, errorsEmitted,
                   closeCode, stderr, timedOut, outcome, settledBy,
                   timedOutAtClose, jsonRead, unlinkFailed, restoreCalled,
                   original, toolWroteResult, atReturn, unitPc, unitArgs,
                   calls, runs, spawned, diagnosticCollection, fileReads>>

----------------------------------------------------------------------------
\* the temp result file holds text that parses
JsonParsed == ExistsSync(fs, jsonTmpFile) /\ fs[jsonTmpFile].parses
\* ... to a value with a messages array
JsonTyped == JsonParsed /\ fs[jsonTmpFile].hasMessages
JsonUntyped == JsonParsed /\ ~fs[jsonTmpFile].hasMessages

(* proc.on('close', ...) of run.  unlinkOk, unlink2Ok: the unlinkSync of the
   first and of a second cleanupTmpFile call do not throw; mvOk, r1Ok, r2Ok:
   the renames of findGeneratedEpub / restoreProtectedEpub do not throw.
   The result names the file system left behind, the value passed to
   resolve(), whether the result file's content was read, whether the latest
   cleanup swallowed a failure and whether the backup reached restore. *)

\* Mutant: the timeout branch returns without cleaning up.
RunTimeoutBranchKeepsFile(f, cfg, jsonPath, unlinkOk) ==
    [fs |-> f,
     value |-> Result(FALSE, Undefined, TimeoutError(cfg), Undefined),
     read |-> FALSE,
     failed |-> FALSE,
     restored |-> FALSE]

\* lines 57-65: timeout or null exit code
RunTimeoutBranch(f, cfg, jsonPath, unlinkOk) ==
    [fs |-> CleanupTmpFile(f, jsonPath, unlinkOk),
     value |-> Result(FALSE, Undefined, TimeoutError(cfg), Undefined),
     read |-> FALSE,
     failed |-> CleanupFailed(f, jsonPath, unlinkOk),
     restored |-> FALSE]

\* Mutant: the artifact is looked for whether or not save is set.
RunParsedBranchAlwaysLocates(f, parsed, sv, jsonPath, dflt, protPath, unlinkOk, mvOk, r1Ok, r2Ok) ==
    LET f1 == CleanupTmpFile(f, jsonPath, unlinkOk)
        found == FindGeneratedEpub(f1, EpubDir, GetDefaultEpubPath(EpubDir),
                                   protPath, mvOk, r1Ok, r2Ok)
    IN  [fs |-> found.fs,
         value |-> Result(~HasErrors(parsed), parsed, Undefined, found.path),
         read |-> TRUE,
         failed |-> CleanupFailed(f, jsonPath, unlinkOk),
         restored |-> found.restored]

\* lines 70-85: the result file was read and parsed, result.messages is there
RunParsedBranch(f, parsed, sv, jsonPath, dflt, protPath, unlinkOk, mvOk, r1Ok, r2Ok) ==
    LET f1 == CleanupTmpFile(f, jsonPath, unlinkOk)
        found == IF sv
                 THEN FindGeneratedEpub(f1, EpubDir, dflt, protPath, mvOk, r1Ok, r2Ok)
                 ELSE [fs |-> f1, path |-> Undefined, restored |-> FALSE]
    IN  [fs |-> found.fs,
         value |-> Result(~HasErrors(parsed), parsed, Undefined, found.path),
         read |-> TRUE,
         failed |-> CleanupFailed(f, jsonPath, unlinkOk),
         restored |-> found.restored]

\* lines 86-100: something in the try block threw
RunCatchBranch(f, code, err, jsonPath, unlinkOk, wasRead) ==
    [fs |-> CleanupTmpFile(f, jsonPath, unlinkOk),
     value |-> Result(FALSE, Undefined, NoValidOutputError(err, code), Undefined),
     read |-> wasRead,
     failed |-> CleanupFailed(f, jsonPath, unlinkOk),
     restored |-> FALSE]

RunCloseEffect(f, code, flag, cfg, sv, err, jsonPath, dflt, protPath, unlinkOk, unlink2Ok, mvOk, r1Ok, r2Ok) ==
    IF IsTimeoutClose(flag, code)
    THEN RunTimeoutBranch(f, cfg, jsonPath, unlinkOk)
    ELSE IF ExistsSync(f, jsonPath) /\ f[jsonPath].parses
    THEN IF f[jsonPath].hasMessages
         THEN RunParsedBranch(f, f[jsonPath], sv, jsonPath, dflt, protPath,
                              unlinkOk, mvOk, r1Ok, r2Ok)
         \* result.messages is undefined: TypeError after the cleanup of line 70
         ELSE RunCatchBranch(CleanupTmpFile(f, jsonPath, unlinkOk), code, err,
                             jsonPath, unlink2Ok, TRUE)
    \* readFileSync or JSON.parse throws
    ELSE RunCatchBranch(f, code, err, jsonPath, unlinkOk, ExistsSync(f, jsonPath))

RunOnClose(code, unlinkOk, unlink2Ok, mvOk, r1Ok, r2Ok) ==
    /\ mode = "run"
    /\ CanClose(code)
    /\ LET e == RunCloseEffect(fs, code, timedOut, config, save, stderr,
                               jsonTmpFile, defaultEpubPath, protectedPath,
                               unlinkOk, unlink2Ok, mvOk, r1Ok, r2Ok)
       IN  /\ fs' = e.fs
           /\ outcome' = Resolve(outcome, e.value)
           /\ jsonRead' = (jsonRead \/ e.read)
           /\ unlinkFailed' = e.failed
           /\ restoreCalled' = (restoreCalled \/ e.restored)
           /\ atReturn' = IF outcome = Undefined
                           THEN [tmpExists |-> ExistsSync(e.fs, jsonTmpFile),
                                 unlinkFailed |-> e.failed,
                                 typed |-> JsonTyped]
                           ELSE atReturn
    /\ settledBy' = IF outcome = Undefined THEN "close" ELSE settledBy
    /\ closeCode' = code
    /\ timedOutAtClose' = timedOut
    /\ UNCHANGED <<config, clock, mode, save, jsonTmpFile, defaultEpubPath,
                   protectedPath, child, errorsEmitted, eventsDone, stderr,
                   timedOut, original, unitPc, unitArgs, toolWroteResult,
                   calls, runs, spawned, diagnosticCollection, fileReads>>

(* proc.on('error', ...) of run *)
RunErrorValue(err, cfg) ==
    IF IsNotFound(err) THEN Result(FALSE, Undefined, JavaNotFoundError(cfg), Undefined)
    ELSE IF IsTimeoutSignal(err) THEN Undefined
    ELSE Result(FALSE, Undefined, FailedToRunError(err), Undefined)

RunOnError(err, unlinkOk) ==
    /\ mode = "run"
    /\ CanError(err)
    /\ fs' = CleanupTmpFile(fs, jsonTmpFile, unlinkOk)
    /\ unlinkFailed' = CleanupFailed(fs, jsonTmpFile, unlinkOk)
    /\ LET value == RunErrorValue(err, config)
       IN  /\ outcome' = IF value = Undefined THEN outcome
                         ELSE Resolve(outcome, value)
           /\ settledBy' = IF outcome = Undefined /\ value # Undefined
                           THEN "error" ELSE settledBy
           /\ atReturn' = IF outcome = Undefined /\ value # Undefined
                           THEN [tmpExists |-> ExistsSync(fs', jsonTmpFile),
                                 unlinkFailed |-> unlinkFailed',
                                 typed |-> JsonTyped]
                           ELSE atReturn
    /\ timedOut' = (timedOut \/ (~IsNotFound(err) /\ IsTimeoutSignal(err)))
    /\ errorsEmitted' = errorsEmitted + 1
    /\ UNCHANGED <<config, clock, mode, save, jsonTmpFile, defaultEpubPath,
                   protectedPath, child, closeCode, eventsDone, stderr,
                   timedOutAtClose, jsonRead, restoreCalled, original, unitPc,
                   unitArgs, toolWroteResult, calls, runs, spawned,
                   diagnosticCollection, fileReads>>

----------------------------------------------------------------------------
(* proc.on('close', ...) of generateOnly *)

\* Mutant: success is taken from the exit code, not from the located artifact.
GenLocatedValueByExitCode(finalPath, code) ==
    Result(code = "0", Undefined,
           IF finalPath = Undefined /\ code = "1" THEN AbortedError
           ELSE IF finalPath = Undefined THEN NotGeneratedError
           ELSE Undefined,
           finalPath)

\* Mutant: the exit code is not consulted when no artifact is located.
GenLocatedValueOneMessage(finalPath, code) ==
    Result(finalPath # Undefined, Undefined,
           IF finalPath = Undefined THEN NotGeneratedError ELSE Undefined,
           finalPath)

\* the value resolved for exit code 0 or 1, finalPath being what
\* findGeneratedEpub returned
GenLocatedValue(finalPath, code) ==
    Result(finalPath # Undefined, Undefined,
           IF finalPath = Undefined /\ code = "1" THEN AbortedError
           ELSE IF finalPath = Undefined THEN NotGeneratedError
           ELSE Undefined,
           finalPath)

GenCloseEffect(f, code, flag, cfg, err, dflt, protPath, mvOk, r1Ok, r2Ok) ==
    IF IsTimeoutClose(flag, code)
    THEN [fs |-> f,
          value |-> Result(FALSE, Undefined, TimeoutError(cfg), Undefined),
          restored |-> FALSE]
    ELSE IF code = "0" \/ code = "1"
    THEN LET found == FindGeneratedEpub(f, EpubDir, dflt, protPath,
                                        mvOk, r1Ok, r2Ok)
         IN  [fs |-> found.fs,
              value |-> GenLocatedValue(found.path, code),
              restored |-> found.restored]
    ELSE [fs |-> f,
          value |-> Result(FALSE, Undefined, ExitCodeError(err, code), Undefined),
          restored |-> FALSE]

GenOnClose(code, mvOk, r1Ok, r2Ok) ==
    /\ mode = "generateOnly"
    /\ CanClose(code)
    /\ LET e == GenCloseEffect(fs, code, timedOut, config, stderr,
                               defaultEpubPath, protectedPath, mvOk, r1Ok, r2Ok)
       IN  /\ fs' = e.fs
           /\ outcome' = Resolve(outcome, e.value)
           /\ restoreCalled' = (restoreCalled \/ e.restored)
    /\ settledBy' = IF outcome = Undefined THEN "close" ELSE settledBy
    /\ closeCode' = code
    /\ timedOutAtClose' = timedOut
    /\ UNCHANGED <<config, clock, mode, save, jsonTmpFile, defaultEpubPath,
                   protectedPath, child, errorsEmitted, eventsDone, stderr,
                   timedOut, jsonRead, unlinkFailed, original, unitPc,
                   unitArgs, toolWroteResult, atReturn, calls, runs, spawned,
                   diagnosticCollection, fileReads>>

(* proc.on('error', ...) of generateOnly *)
GenErrorValue(err, cfg) ==
    IF IsNotFound(err) THEN Result(FALSE, Undefined, JavaNotFoundError(cfg), Undefined)
    ELSE IF IsTimeoutSignal(err) THEN Undefined
    ELSE Result(FALSE, Undefined, FailedToRunError(err), Undefined)

GenOnError(err) ==
    /\ mode = "generateOnly"
    /\ CanError(err)
    /\ LET value == GenErrorValue(err, config)
       IN  /\ outcome' = IF value = Undefined THEN outcome
                         ELSE Resolve(outcome, value)
           /\ settledBy' = IF outcome = Undefined /\ value # Undefined
                           THEN "error" ELSE settledBy
    /\ timedOut' = (timedOut \/ (~IsNotFound(err) /\ IsTimeoutSignal(err)))
    /\ errorsEmitted' = errorsEmitted + 1
    /\ UNCHANGED <<config, clock, fs, mode, save, jsonTmpFile,
                   defaultEpubPath, protectedPath, child, closeCode,
                   eventsDone, stderr, timedOutAtClose, jsonRead,
                   unlinkFailed, restoreCalled, original, unitPc, unitArgs,
                   toolWroteResult, atReturn, calls, runs, spawned,
                   diagnosticCollection, fileReads>>

----------------------------------------------------------------------------
(* One call of run or generateOnly and the life of its child *)

\* Outcomes of a file system call the handler may make: it can fail only
\* where the handler reaches it.
Outcomes(reached) == IF reached THEN BOOLEAN ELSE {TRUE}


Next ==
    \/ \E sv \in BOOLEAN, spawnOk \in BOOLEAN :
       \E renameOk \in Outcomes(sv /\ ExistsSync(fs, Canonical)) :
          Run(sv, spawnOk, renameOk)
    \/ \E spawnOk \in BOOLEAN, renameOk \in Outcomes(ExistsSync(fs, Canonical)) :
          GenerateOnly(spawnOk, renameOk)
    \/ \E doc \in ToolJsonOutputs : ToolWriteJson(doc)
    \/ \E place \in {Inside, Canonical} : ToolWriteEpub(place)
    \/ \E data \in {"E", " "} : RunOnStderrData(data)
    \/ \E data \in {"E", " "} : GenOnStderrData(data)
    \/ \E code \in CloseCodes,
          unlinkOk \in Outcomes(ExistsSync(fs, jsonTmpFile)),
          unlink2Ok \in Outcomes(JsonUntyped),
          mvOk \in Outcomes(save /\ ExistsSync(fs, Inside)),
          r1Ok \in Outcomes(protectedPath # Undefined),
          r2Ok \in Outcomes(protectedPath # Undefined) :
          RunOnClose(code, unlinkOk, unlink2Ok, mvOk, r1Ok, r2Ok)
    \/ \E err \in ErrorEvents, unlinkOk \in Outcomes(ExistsSync(fs, jsonTmpFile)) :
          RunOnError(err, unlinkOk)
    \/ \E code \in CloseCodes,
          mvOk \in Outcomes(ExistsSync(fs, Inside)),
          r1Ok \in Outcomes(protectedPath # Undefined),
          r2Ok \in Outcomes(protectedPath # Undefined) :
          GenOnClose(code, mvOk, r1Ok, r2Ok)
    \/ \E err \in ErrorEvents : GenOnError(err)
    \/ ChildEnds

Spec == Init /\ [][Next]_vars

----------------------------------------------------------------------------
(* restoreProtectedEpub called on its own, as the unit tests call it: any
   backup argument (undefined, missing, present), the target free or taken
   by a new artifact, any of the disambiguated names already in use. *)

RestoreInputs(backup, hasBackup, hasTarget, taken) ==
    [p \in Paths |->
        IF p = backup /\ hasBackup THEN Epub("ORIGINAL")
        ELSE IF p = Canonical /\ hasTarget THEN Epub("NEW")
        ELSE IF p \in { Numbered(Canonical, k) : k \in taken } THEN Epub("OTHER")
        ELSE Absent]

InitRestore ==
    /\ config \in Configs
    /\ clock \in Clocks
    /\ mode = "unit"
    /\ unitPc = "input"
    /\ original = FALSE
    /\ calls = Undefined
    /\ runs = 0
    /\ Idle
    /\ \E hasBackup \in BOOLEAN, hasTarget \in BOOLEAN, passed \in BOOLEAN,
          taken \in SUBSET (2..(MaxSiblings + 2)) :
          /\ fs = RestoreInputs(ProtectPath(Canonical, clock), hasBackup,
                                hasTarget, taken)
          /\ unitArgs = [protectedPath |-> IF passed
                                           THEN ProtectPath(Canonical, clock)
                                           ELSE Undefined,
                         targetPath |-> Canonical,
                         before |-> fs]

RestoreCall(r1Ok, r2Ok) ==
    /\ mode = "unit"
    /\ unitPc = "input"
    /\ fs' = RestoreProtectedEpub(fs, unitArgs.protectedPath, unitArgs.targetPath,
                                  r1Ok, r2Ok)
    /\ unitPc' = "done"
    /\ UNCHANGED <<config, clock, mode, save, jsonTmpFile, defaultEpubPath,
                   protectedPath, child, errorsEmitted, closeCode, eventsDone,
                   stderr, timedOut, outcome, settledBy, timedOutAtClose,
                   jsonRead, unlinkFailed, restoreCalled, original,
                   toolWroteResult, atReturn, unitArgs, calls, runs, spawned,
                   diagnosticCollection, fileReads>>

NextRestore ==
    \E r1Ok \in BOOLEAN, r2Ok \in BOOLEAN : RestoreCall(r1Ok, r2Ok)

SpecRestore == InitRestore /\ [][NextRestore]_vars

----------------------------------------------------------------------------
(* findGeneratedEpub called on its own, as the unit tests call it: an
   artifact inside the project directory or not, a file at the target path
   or not, the target and the backup arguments given or undefined, the
   backup file present or not, any of the disambiguated names in use. *)

LocateInputs(hasInside, hasTarget, hasBackup, taken) ==
    [p \in Paths |->
        IF p = Inside /\ hasInside THEN Epub("INSIDE")
        ELSE IF p = Canonical /\ hasTarget THEN Epub("TARGET")
        ELSE IF p = ProtectPath(Canonical, clock) /\ hasBackup THEN Epub("ORIGINAL")
        ELSE IF p \in { Numbered(Canonical, k) : k \in taken } THEN Epub("OTHER")
        ELSE Absent]

InitLocate ==
    /\ config \in Configs
    /\ clock \in Clocks
    /\ mode = "locate"
    /\ unitPc = "input"
    /\ original = FALSE
    /\ calls = Undefined
    /\ runs = 0
    /\ Idle
    /\ \E hasInside \in BOOLEAN, hasTarget \in BOOLEAN, hasBackup \in BOOLEAN,
          passed \in BOOLEAN, targetGiven \in BOOLEAN,
          taken \in SUBSET (2..(MaxSiblings + 2)) :
          /\ fs = LocateInputs(hasInside, hasTarget, hasBackup, taken)
          /\ unitArgs = [epubDir |-> EpubDir,
                         targetPath |-> IF targetGiven THEN Canonical
                                        ELSE Undefined,
                         protectedPath |-> IF passed
                                           THEN ProtectPath(Canonical, clock)
                                           ELSE Undefined,
                         before |-> fs,
                         mvOk |-> TRUE,
                         result |-> Undefined]

LocateCall(mvOk, r1Ok, r2Ok) ==
    /\ mode = "locate"
    /\ unitPc = "input"
    /\ LET found == FindGeneratedEpub(fs, unitArgs.epubDir, unitArgs.targetPath,
                                      unitArgs.protectedPath, mvOk, r1Ok, r2Ok)
       IN  /\ fs' = found.fs
           /\ unitArgs' = [unitArgs EXCEPT !.result = found.path, !.mvOk = mvOk]
    /\ unitPc' = "done"
    /\ UNCHANGED <<config, clock, mode, save, jsonTmpFile, defaultEpubPath,
                   protectedPath, child, errorsEmitted, closeCode, eventsDone,
                   stderr, timedOut, outcome, settledBy, timedOutAtClose,
                   jsonRead, unlinkFailed, restoreCalled, original,
                   toolWroteResult, atReturn, calls, runs, spawned,
                   diagnosticCollection, fileReads>>

NextLocate ==
    \E mvOk \in BOOLEAN, r1Ok \in BOOLEAN, r2Ok \in BOOLEAN :
        LocateCall(mvOk, r1Ok, r2Ok)

SpecLocate == InitLocate /\ [][NextLocate]_vars

----------------------------------------------------------------------------
(* getUniquePath called on its own, as the unit tests call it, for either of
   two file paths: the file itself present or not, and any set of its
   disambiguated names "<base> (k)<ext>", k in 2..MaxSiblings+2, in use. *)

UniqueArgs == {Canonical, Inside}

UniqueNames(p) == {p} \cup { Numbered(p, k) : k \in 2..(MaxSiblings + 3) }

UniqueInputs(present, taken) ==
    [q \in UNION { UniqueNames(p) : p \in UniqueArgs } |->
        IF \E p \in UniqueArgs :
              \/ q = p /\ p \in present
              \/ \E k \in taken[p] : q = Numbered(p, k)
        THEN Epub("OTHER")
        ELSE Absent]

InitUnique ==
    /\ config \in Configs
    /\ clock \in Clocks
    /\ mode = "unique"
    /\ unitPc = "input"
    /\ original = FALSE
    /\ calls = Undefined
    /\ runs = 0
    /\ Idle
    /\ \E present \in SUBSET UniqueArgs,
          taken \in [UniqueArgs -> SUBSET (2..(MaxSiblings + 2))],
          filePath \in UniqueArgs :
          /\ fs = UniqueInputs(present, taken)
          /\ unitArgs = [filePath |-> filePath, before |-> fs,
                         result |-> Undefined]

UniqueCall ==
    /\ mode = "unique"
    /\ unitPc = "input"
    /\ unitArgs' = [unitArgs EXCEPT !.result = GetUniquePath(fs, unitArgs.filePath)]
    /\ unitPc' = "done"
    /\ UNCHANGED <<config, clock, fs, mode, save, jsonTmpFile,
                   defaultEpubPath, protectedPath, child, errorsEmitted,
                   closeCode, eventsDone, stderr, timedOut, outcome,
                   settledBy, timedOutAtClose, jsonRead, unlinkFailed,
                   restoreCalled, original, toolWroteResult, atReturn, calls,
                   runs, spawned, diagnosticCollection, fileReads>>

NextUnique == UniqueCall

SpecUnique == InitUnique /\ [][NextUnique]_vars

----------------------------------------------------------------------------
(* The protect step on its own, as run performs it (only when save is set)
   and as the unit tests call it: the path undefined, free, or holding a
   file; a stale file at the hidden name or not. *)

ProtectArgs == {Undefined, Canonical, Inside}

ProtectPaths == Paths \cup { ProtectPath(Inside, t) : t \in Clocks }

InitProtect ==
    /\ config \in Configs
    /\ clock \in Clocks
    /\ mode = "protect"
    /\ unitPc = "input"
    /\ original = FALSE
    /\ calls = Undefined
    /\ runs = 0
    /\ Idle
    /\ \E epubPath \in ProtectArgs, sv \in BOOLEAN, stale \in BOOLEAN,
          content \in {Absent, Epub("ORIGINAL"), Epub("NEW")},
          taken \in SUBSET (2..(MaxSiblings + 1)) :
          /\ fs = [p \in ProtectPaths |->
                     IF p = epubPath THEN content
                     ELSE IF epubPath # Undefined /\ stale
                             /\ p = ProtectPath(epubPath, clock)
                     THEN Epub("OTHER")
                     ELSE IF p \in { Numbered(Canonical, k) : k \in taken }
                     THEN Epub("OTHER")
                     ELSE Absent]
          /\ unitArgs = [epubPath |-> epubPath, save |-> sv, before |-> fs,
                         renameOk |-> TRUE, result |-> Undefined]

\* save ? protectExistingEpub(defaultEpubPath) : undefined
ProtectCall(renameOk) ==
    /\ mode = "protect"
    /\ unitPc = "input"
    /\ LET prot == IF unitArgs.save
                   THEN ProtectExistingEpub(fs, unitArgs.epubPath, clock, renameOk)
                   ELSE [fs |-> fs, path |-> Undefined]
       IN  /\ fs' = prot.fs
           /\ unitArgs' = [unitArgs EXCEPT !.result = prot.path,
                                           !.renameOk = renameOk]
    /\ unitPc' = "done"
    /\ UNCHANGED <<config, clock, mode, save, jsonTmpFile, defaultEpubPath,
                   protectedPath, child, errorsEmitted, closeCode, eventsDone,
                   stderr, timedOut, outcome, settledBy, timedOutAtClose,
                   jsonRead, unlinkFailed, restoreCalled, original,
                   toolWroteResult, atReturn, calls, runs, spawned,
                   diagnosticCollection, fileReads>>

NextProtect == \E renameOk \in BOOLEAN : ProtectCall(renameOk)

SpecProtect == InitProtect /\ [][NextProtect]_vars

----------------------------------------------------------------------------
(* Two invocations of run in flight at once, on any of three projects (two
   of them in the same parent directory), sharing the file system and the
   millisecond clock.  Each child writes its result, may write its artifact
   at the canonical path, and exits normally; no file operation fails. *)

MaxNow == 2           \* Date.now() takes the values 1..MaxNow

CallIds == {1, 2}

PairProjects ==
    { EpubDir,
      [dir |-> <<"parent">>, name |-> "album"],
      [dir |-> <<"elsewhere">>, name |-> "book"] }

PairPaths ==
    UNION { {GetDefaultEpubPath(d), InsidePath(d)}
              \cup { Numbered(GetDefaultEpubPath(d), k) : k \in 2..(MaxSiblings + 3) }
              \cup { ProtectPath(GetDefaultEpubPath(d), t) : t \in 1..MaxNow }
            : d \in PairProjects }
      \cup { JsonTmpFile(t) : t \in 1..MaxNow }

\* what lies on disk: the artifact of a project, the result written for a call
EpubOf(epubDir, version) == Epub([of |-> epubDir, version |-> version])
ResultOf(i) ==
    [kind |-> "text", parses |-> TRUE, hasMessages |-> TRUE, messages |-> <<>>,
     writer |-> i]

IdleCall ==
    [pc |-> "idle", epubDir |-> Undefined, save |-> FALSE,
     jsonTmpFile |-> Undefined, defaultEpubPath |-> Undefined,
     protectedPath |-> Undefined, wroteJson |-> FALSE, wroteEpub |-> FALSE,
     parsedFrom |-> 0,        \* history: writer of the result file it parsed
     deletedFrom |-> 0,       \* history: writer of the result file it unlinked
     protectReplaced |-> FALSE] \* history: its protect rename replaced a file

InitPair ==
    /\ config \in Configs
    /\ clock = 1
    /\ mode = "pair"
    /\ unitPc = "off"
    /\ unitArgs = Undefined
    /\ original = FALSE
    /\ runs = 0
    /\ Idle
    /\ calls = [i \in CallIds |-> IdleCall]
    /\ \E have \in SUBSET PairProjects :
          fs = [p \in PairPaths |->
                  IF \E d \in have : p = GetDefaultEpubPath(d)
                  THEN EpubOf(CHOOSE d \in have : p = GetDefaultEpubPath(d),
                              "ORIGINAL")
                  ELSE Absent]

PairFrame ==
    UNCHANGED <<config, mode, save, jsonTmpFile, defaultEpubPath,
                protectedPath, child, errorsEmitted, closeCode, eventsDone,
                stderr, timedOut, outcome, settledBy, timedOutAtClose,
                jsonRead, unlinkFailed, restoreCalled, original,
                toolWroteResult, atReturn, unitPc, unitArgs, runs, spawned,
                diagnosticCollection, fileReads>>

\* a millisecond passes
PairTick ==
    /\ mode = "pair"
    /\ clock < MaxNow
    /\ clock' = clock + 1
    /\ UNCHANGED <<fs, calls>>
    /\ PairFrame

\* the synchronous part of run(epubDir, sv) for invocation i
PairRun(i, epubDir, sv) ==
    /\ mode = "pair"
    /\ calls[i].pc = "idle"
    /\ LET dflt == IF sv THEN GetDefaultEpubPath(epubDir) ELSE Undefined
           prot == ProtectExistingEpub(fs, dflt, clock, TRUE)
       IN  /\ fs' = prot.fs
           /\ calls' = [calls EXCEPT ![i] =
                 [@ EXCEPT !.pc = "running",
                           !.epubDir = epubDir,
                           !.save = sv,
                           !.jsonTmpFile = JsonTmpFile(clock),
                           !.defaultEpubPath = dflt,
                           !.protectedPath = prot.path,
                           !.protectReplaced =
                               prot.path # Undefined /\ ExistsSync(fs, prot.path)]]
    /\ UNCHANGED clock
    /\ PairFrame

\* the child of invocation i writes its result to the path given by --json
PairToolWriteJson(i) ==
    /\ mode = "pair"
    /\ calls[i].pc = "running"
    /\ ~calls[i].wroteJson
    /\ fs' = [fs EXCEPT ![calls[i].jsonTmpFile] = ResultOf(i)]
    /\ calls' = [calls EXCEPT ![i].wroteJson = TRUE]
    /\ UNCHANGED clock
    /\ PairFrame

\* the child of invocation i (--save) writes its artifact
PairToolWriteEpub(i) ==
    /\ mode = "pair"
    /\ calls[i].pc = "running"
    /\ calls[i].save
    /\ ~calls[i].wroteEpub
    /\ fs' = [fs EXCEPT ![calls[i].defaultEpubPath] = EpubOf(calls[i].epubDir, "NEW")]
    /\ calls' = [calls EXCEPT ![i].wroteEpub = TRUE]
    /\ UNCHANGED clock
    /\ PairFrame

\* the close handler of invocation i after a normal exit: read and parse the
\* result file, clean it up, locate the artifact; a missing file is the catch
\* branch, which cleans up and locates nothing
PairOnClose(i) ==
    /\ mode = "pair"
    /\ calls[i].pc = "running"
    /\ LET c == calls[i]
           present == ExistsSync(fs, c.jsonTmpFile)
           writer == IF present THEN fs[c.jsonTmpFile].writer ELSE 0
           f1 == CleanupTmpFile(fs, c.jsonTmpFile, TRUE)
           found == FindGeneratedEpub(f1, c.epubDir, c.defaultEpubPath,
                                      c.protectedPath, TRUE, TRUE, TRUE)
       IN  /\ fs' = IF present /\ c.save THEN found.fs ELSE f1
           /\ calls' = [calls EXCEPT ![i] =
                 [@ EXCEPT !.pc = "done", !.parsedFrom = writer,
                           !.deletedFrom = writer]]
    /\ UNCHANGED clock
    /\ PairFrame

NextPair ==
    \/ PairTick
    \/ \E i \in CallIds, d \in PairProjects, sv \in BOOLEAN : PairRun(i, d, sv)
    \/ \E i \in CallIds : PairToolWriteJson(i)
    \/ \E i \in CallIds : PairToolWriteEpub(i)
    \/ \E i \in CallIds : PairOnClose(i)

SpecPair == InitPair /\ [][NextPair]_vars

----------------------------------------------------------------------------
(* Consecutive calls of generateOnly on one project, each awaited before the
   next, a file lying at the canonical path before the first.  In every call
   the child writes a new artifact (inside the project directory or at the
   canonical path) and then ends with any exit code or is killed (null); no
   file operation fails.  Epub(k) is the artifact written during call k,
   Epub(0) the user's file, Epub(-1) any other file. *)

MaxRuns == 2          \* consecutive calls

RepeatPaths ==
    {Canonical, Inside}
      \cup { Numbered(Canonical, k) : k \in 2..(MaxSiblings + MaxRuns + 2) }
      \cup { ProtectPath(Canonical, t) : t \in 1..MaxRuns }

InitRepeat ==
    /\ config \in Configs
    /\ clock = 1
    /\ mode = "repeat"
    /\ unitPc = "idle"
    /\ original = TRUE
    /\ calls = Undefined
    /\ runs = 0
    /\ Idle
    /\ \E taken \in SUBSET (2..(MaxSiblings + 1)) :
          fs = [p \in RepeatPaths |->
                  IF p = Canonical THEN Epub(0)
                  ELSE IF p \in { Numbered(Canonical, k) : k \in taken }
                  THEN Epub(-1)
                  ELSE Absent]
    /\ unitArgs = [before |-> fs]

RepeatFrame ==
    UNCHANGED <<config, mode, save, jsonTmpFile, child, errorsEmitted,
                closeCode, eventsDone, stderr, timedOut, settledBy,
                timedOutAtClose, jsonRead, unlinkFailed, restoreCalled,
                original, toolWroteResult, atReturn, calls, spawned,
                diagnosticCollection, fileReads>>

\* the synchronous part of generateOnly: protect, then spawn
RepeatGenerateOnly ==
    /\ mode = "repeat"
    /\ unitPc = "idle"
    /\ runs < MaxRuns
    /\ LET dflt == GetDefaultEpubPath(EpubDir)
           prot == ProtectExistingEpub(fs, dflt, clock, TRUE)
       IN  /\ fs' = prot.fs
           /\ defaultEpubPath' = dflt
           /\ protectedPath' = prot.path
    /\ unitArgs' = [before |-> fs]
    /\ unitPc' = "spawned"
    /\ outcome' = Undefined
    /\ UNCHANGED <<clock, runs>>
    /\ RepeatFrame

\* the child writes the new artifact
RepeatToolWriteEpub(place) ==
    /\ mode = "repeat"
    /\ unitPc = "spawned"
    /\ fs' = [fs EXCEPT ![place] = Epub(runs + 1)]
    /\ unitPc' = "written"
    /\ UNCHANGED <<clock, runs, defaultEpubPath, protectedPath, outcome, unitArgs>>
    /\ RepeatFrame

\* the close handler of generateOnly; the call returns, time passes
RepeatOnClose(code) ==
    /\ mode = "repeat"
    /\ unitPc = "written"
    /\ LET e == GenCloseEffect(fs, code, FALSE, config, <<>>, defaultEpubPath,
                               protectedPath, TRUE, TRUE, TRUE)
       IN  /\ fs' = e.fs
           /\ outcome' = e.value
    /\ runs' = runs + 1
    /\ clock' = clock + 1
    /\ unitPc' = "idle"
    /\ UNCHANGED <<defaultEpubPath, protectedPath, unitArgs>>
    /\ RepeatFrame

NextRepeat ==
    \/ RepeatGenerateOnly
    \/ \E place \in {Inside, Canonical} : RepeatToolWriteEpub(place)
    \/ \E code \in {"null", "0", "1", "2"} : RepeatOnClose(code)

SpecRepeat == InitRepeat /\ [][NextRepeat]_vars

----------------------------------------------------------------------------
(* DiagnosticsProvider: the pure parts.  A text is a sequence of characters,
   a file path a sequence of segments, a diagnostic a record with the fields
   the provider sets. *)

Null == [kind |-> "null"]
TextFile(text) == [kind |-> "file", text |-> text]
Lines(lines) == [kind |-> "lines", lines |-> lines]

\* Mutant: an unrecognized severity is mapped to Hint.
MapSeverityDefaultHint(severity) ==
    CASE severity \in {"FATAL", "ERROR"} -> "Error"
      [] severity = "WARNING" -> "Warning"
      [] severity = "USAGE" -> "Information"
      [] OTHER -> "Hint"

\* static mapSeverity(severity)
MapSeverity(severity) ==
    CASE severity = "FATAL" -> "Error"
      [] severity = "ERROR" -> "Error"
      [] severity = "WARNING" -> "Warning"
      [] severity = "USAGE" -> "Information"
      [] severity = "INFO" -> "Hint"
      [] OTHER -> "Error"

\* text.split('\n')
RECURSIVE Split(_)
Split(text) ==
    IF \E i \in 1..Len(text) : text[i] = "\n"
    THEN LET i == CHOOSE j \in 1..Len(text) :
                      /\ text[j] = "\n"
                      /\ \A k \in 1..(j - 1) : text[k] # "\n"
         IN  <<SubSeq(text, 1, i - 1)>> \o Split(SubSeq(text, i + 1, Len(text)))
    ELSE <<text>>

\* readFileLines(filePath): the lines, or null when readFileSync throws
ReadFileLines(f, filePath) ==
    IF filePath \in DOMAIN f /\ f[filePath] # Absent
    THEN Lines(Split(f[filePath].text))
    ELSE Null

\* Math.max(0, n)
Max0(n) == IF n > 0 THEN n ELSE 0

\* Mutant: the 1-based column is used as it is.
StartColumnOneBased(location) == Max0(location.column)

\* createDiagnostic: the 0-based start of the range
StartLine(location) == Max0(location.line - 1)
StartColumn(location) == Max0(location.column - 1)

\* Mutant: the end column is not widened when it does not exceed the start.
EndColumnNoWiden(fileLines, line, column) ==
    IF fileLines # Null /\ line < Len(fileLines.lines)
    THEN Len(fileLines.lines[line + 1])
    ELSE column + 1

\* createDiagnostic: the end column (fileLines[line] is the line of 0-based
\* index line, the element line + 1 of the sequence of lines)
EndColumn(fileLines, line, column) ==
    LET endColumn == IF fileLines # Null /\ line < Len(fileLines.lines)
                     THEN Len(fileLines.lines[line + 1])
                     ELSE column + 1
    IN  IF endColumn <= column THEN column + 1 ELSE endColumn

Position(line, character) == [line |-> line, character |-> character]
Range(start, end) == [start |-> start, end |-> end]

\* message.message followed by "\nSuggestion: <suggestion>" when there is one
DiagnosticMessage(message) ==
    IF message.suggestion # Undefined
    THEN <<message.message, "\nSuggestion: ", message.suggestion.str>>
    ELSE <<message.message>>

CreateDiagnostic(message, location, fileLines) ==
    LET line == StartLine(location)
        column == StartColumn(location)
        endColumn == EndColumn(fileLines, line, column)
    IN  [range |-> Range(Position(line, column), Position(line, endColumn)),
         message |-> DiagnosticMessage(message),
         severity |-> MapSeverity(message.severity),
         code |-> message.ID,
         source |-> "EPUBCheck"]

\* path.join: the segments of both parts, "." dropped and ".." resolved
RECURSIVE Normalize(_, _)
Normalize(done, rest) ==
    IF rest = <<>> THEN done
    ELSE IF Head(rest) = "." THEN Normalize(done, Tail(rest))
    ELSE IF Head(rest) = ".." /\ done # <<>>
    THEN Normalize(SubSeq(done, 1, Len(done) - 1), Tail(rest))
    ELSE Normalize(Append(done, Head(rest)), Tail(rest))

DirSegments(epubDir) == Append(epubDir.dir, epubDir.name)
PathJoin(epubDir, relative) == Normalize(<<>>, DirSegments(epubDir) \o relative)

\* vscode.Uri.file(filePath).toString(), parsed back by Uri.parse
UriFile(filePath) == [scheme |-> "file", path |-> filePath]

\* Mutant: only successful results are mapped.
SkipsResultUnlessSuccess(result) == ~result.success

\* if (!result.epubCheckResult) continue
SkipsResult(result) == result.epubCheckResult = Undefined

\* Mutant: the cache is never hit.
CacheHasNever(cache, filePath) == FALSE

\* fileLinesCache.has(filePath)
CacheHas(cache, filePath) == filePath \in DOMAIN cache

\* Mutant: clear() leaves the collection as it is.
ClearKeeps(collection) == collection

\* diagnosticCollection.clear() and the closing loop of set(uri, diagnostics)
Clear(collection) == <<>>
SetAll(collection, diagnosticsMap) ==
    [u \in DOMAIN diagnosticsMap \cup DOMAIN collection |->
        IF u \in DOMAIN diagnosticsMap THEN diagnosticsMap[u] ELSE collection[u]]

\* the three nested loops of updateDiagnostics; st holds diagnosticsMap,
\* fileLinesCache and the calls of readFileLines made so far
RECURSIVE ForLocations(_, _, _, _, _)
ForLocations(st, f, result, message, i) ==
    IF i > Len(message.locations) THEN st
    ELSE LET location == message.locations[i]
             filePath == PathJoin(result.epubDir, location.path)
             fileUri == UriFile(filePath)
             map1 == IF fileUri \in DOMAIN st.map THEN st.map
                     ELSE (fileUri :> <<>>) @@ st.map
             miss == ~CacheHas(st.cache, filePath)
             cache1 == IF miss
                       THEN (filePath :> ReadFileLines(f, filePath)) @@ st.cache
                       ELSE st.cache
             fileLines == cache1[filePath]
             diagnostic == CreateDiagnostic(message, location, fileLines)
         IN  ForLocations([map |-> [map1 EXCEPT ![fileUri] = Append(@, diagnostic)],
                           cache |-> cache1,
                           reads |-> IF miss THEN Append(st.reads, filePath)
                                     ELSE st.reads],
                          f, result, message, i + 1)

RECURSIVE ForMessages(_, _, _, _)
ForMessages(st, f, result, j) ==
    IF j > Len(result.epubCheckResult.messages) THEN st
    ELSE ForMessages(ForLocations(st, f, result,
                                  result.epubCheckResult.messages[j], 1),
                     f, result, j + 1)

RECURSIVE ForResults(_, _, _, _)
ForResults(st, f, results, k) ==
    IF k > Len(results) THEN st
    ELSE IF SkipsResult(results[k]) THEN ForResults(st, f, results, k + 1)
    ELSE ForResults(ForMessages(st, f, results[k], 1), f, results, k + 1)

\* countMessages(results) of the extension: per message max(1, #locations)
RECURSIVE CountFrom(_, _, _)
CountFrom(messages, j, severities) ==
    IF j > Len(messages) THEN 0
    ELSE (IF messages[j].severity \in severities
          THEN (IF Len(messages[j].locations) > 1
                THEN Len(messages[j].locations) ELSE 1)
          ELSE 0)
         + CountFrom(messages, j + 1, severities)

RECURSIVE TotalFrom(_, _, _)
TotalFrom(results, k, severities) ==
    IF k > Len(results) THEN 0
    ELSE (IF results[k].epubCheckResult = Undefined THEN 0
          ELSE CountFrom(results[k].epubCheckResult.messages, 1, severities))
         + TotalFrom(results, k + 1, severities)

CountMessages(results) ==
    [totalErrors |-> TotalFrom(results, 1, {"FATAL", "ERROR"}),
     totalWarnings |-> TotalFrom(results, 1, {"WARNING"}),
     hasExecutionError |->
        \E k \in 1..Len(results) :
            results[k].epubCheckResult = Undefined /\ results[k].error # Undefined]

\* StatusBar: the states its setters leave
StatusIdle == [state |-> "idle"]
StatusRunning == [state |-> "running"]
SetSuccess(epubCount) == [state |-> "success", epubCount |-> epubCount]
SetErrors(errorCount, warningCount) ==
    [state |-> "error", errorCount |-> errorCount, warningCount |-> warningCount,
     failed |-> errorCount = 0 /\ warningCount = 0]

\* updateStatusBar(results)
UpdateStatusBar(results) ==
    LET c == CountMessages(results)
    IN  IF ~c.hasExecutionError /\ c.totalErrors = 0
        THEN SetSuccess(Len(results))
        ELSE SetErrors(c.totalErrors, c.totalWarnings)

\* showSummary(results): the notification shown
ShowSummary(results) ==
    LET c == CountMessages(results)
    IN  IF c.totalErrors = 0 /\ c.totalWarnings = 0
        THEN [kind |-> "information", passed |-> TRUE,
              errors |-> 0, warnings |-> 0]
        ELSE [kind |-> "warning", passed |-> FALSE,
              errors |-> c.totalErrors, warnings |-> c.totalWarnings]

MappingPass(f, results) ==
    ForResults([map |-> <<>>, cache |-> <<>>, reads |-> <<>>], f, results, 1)

----------------------------------------------------------------------------
(* createDiagnostic and readFileLines called on one location: any line and
   column from -1 up to past the end of the file, against any text of at
   most MaxFileLen characters or a file that cannot be read. *)

MaxFileLen == 4
MaxLine == 3
MaxColumn == 4

Chars == {"x", "\n"}
Texts == UNION { [1..n -> Chars] : n \in 0..MaxFileLen }
RangeFile == <<"parent", "book", "a">>
RangeMessage ==
    [ID |-> "RSC-005", severity |-> "ERROR", message |-> "m1",
     suggestion |-> Undefined]

UnitFrame ==
    UNCHANGED <<config, clock, save, jsonTmpFile, defaultEpubPath,
                protectedPath, child, errorsEmitted, closeCode, eventsDone,
                stderr, timedOut, outcome, settledBy, timedOutAtClose,
                jsonRead, unlinkFailed, restoreCalled, original,
                toolWroteResult, atReturn, calls, runs, spawned>>

InitRange ==
    /\ config \in Configs
    /\ clock \in Clocks
    /\ mode = "range"
    /\ unitPc = "input"
    /\ original = FALSE
    /\ calls = Undefined
    /\ runs = 0
    /\ Idle
    /\ fs = [p \in {RangeFile} |-> Absent]
    /\ unitArgs = Undefined

\* createDiagnostic(message, location, readFileLines(filePath))
RangeCall(content, l, c) ==
    /\ mode = "range"
    /\ unitPc = "input"
    /\ fs' = [p \in {RangeFile} |-> content]
    /\ LET location == [path |-> <<"a">>, line |-> l, column |-> c]
           fileLines == ReadFileLines(fs', RangeFile)
       IN  unitArgs' = [location |-> location, fileLines |-> fileLines,
                        diagnostic |-> CreateDiagnostic(RangeMessage, location,
                                                        fileLines)]
    /\ unitPc' = "done"
    /\ UNCHANGED <<mode, diagnosticCollection, fileReads>>
    /\ UnitFrame

NextRange ==
    \E content \in {Absent} \cup { TextFile(t) : t \in Texts },
       l \in (-1)..(MaxLine + 1), c \in (-1)..(MaxColumn + 1) :
        RangeCall(content, l, c)

SpecRange == InitRange /\ [][NextRange]_vars

----------------------------------------------------------------------------
(* mapSeverity called repeatedly, with the five severities and a value
   outside the type; unitArgs is the log of the calls. *)

MaxCalls == 3
Severities == {"FATAL", "ERROR", "WARNING", "USAGE", "INFO"}
SeverityInputs == Severities \cup {"UNKNOWN"}

InitSeverity ==
    /\ config \in Configs
    /\ clock \in Clocks
    /\ mode = "severity"
    /\ unitPc = "input"
    /\ original = FALSE
    /\ calls = Undefined
    /\ runs = 0
    /\ Idle
    /\ fs = <<>>
    /\ unitArgs = <<>>

MapSeverityCall(severity) ==
    /\ mode = "severity"
    /\ Len(unitArgs) < MaxCalls
    /\ unitArgs' = Append(unitArgs, [severity |-> severity,
                                     level |-> MapSeverity(severity)])
    /\ UNCHANGED <<mode, unitPc, fs, diagnosticCollection, fileReads>>
    /\ UnitFrame

NextSeverity == \E severity \in SeverityInputs : MapSeverityCall(severity)

SpecSeverity == InitSeverity /\ [][NextSeverity]_vars

----------------------------------------------------------------------------
(* updateDiagnostics and clear over batches of results.  A batch grows one
   result, message or location at a time; a pass maps it; clear may follow;
   the next batch starts from the collection left (unitArgs.previous: the
   files the collection held before the latest pass or clear).  Two projects, the files "a" and "b" in
   each (readable or not, by name); "./a" is another spelling of "a".  The k-th
   location added has line k, which tells the diagnostics apart.  The bounds
   count what is added over all batches. *)

MaxResults == 2
MaxMessages == 2
MaxLocations == 2
MaxPasses == 2

DiagProjects == {EpubDir, [dir |-> <<"parent">>, name |-> "album"]}
DiagNames == {"a", "b"}
LocationPaths == {<<"a">>, <<".", "a">>, <<"b">>}
DiagFiles == { PathJoin(d, <<n>>) : d \in DiagProjects, n \in DiagNames }
DiagText == <<"x", "x", "x", "\n", "x">>
DiagColumn == 2
DiagMessages ==
    { [ID |-> "RSC-005", severity |-> "ERROR", message |-> "m1",
       suggestion |-> Undefined, locations |-> <<>>],
      [ID |-> "OPF-003", severity |-> "USAGE", message |-> "m2",
       suggestion |-> Str("s2"), locations |-> <<>>] }

\* a ValidationResult as run returns it: no parsed result (here a timeout),
\* or the parsed messages with success = no FATAL / ERROR among them
DiagResult(d, messages) ==
    [success |-> \A i \in 1..Len(messages) :
                     messages[i].severity \notin {"FATAL", "ERROR"},
     epubDir |-> d, epubCheckResult |-> [messages |-> messages],
     error |-> Undefined, epubOutputPath |-> Undefined]
DiagFailure(d, cfg) ==
    [success |-> FALSE, epubDir |-> d, epubCheckResult |-> Undefined,
     error |-> TimeoutError(cfg), epubOutputPath |-> Undefined]

InitDiag ==
    /\ config \in { c \in Configs : c.javaPath = "java" }
    /\ clock \in Clocks
    /\ mode = "diag"
    /\ unitPc = "build"
    /\ original = FALSE
    /\ calls = Undefined
    /\ runs = 0
    /\ Idle
    /\ \E unreadable \in SUBSET DiagNames :
          fs = [p \in DiagFiles |->
                  IF p[Len(p)] \in unreadable THEN Absent ELSE TextFile(DiagText)]
    /\ unitArgs = [results |-> <<>>, passes |-> 0, previous |-> {},
                   added |-> [results |-> 0, messages |-> 0, locations |-> 0],
                   statusBar |-> StatusIdle, summary |-> Undefined]

DiagAddResult(d, parsed) ==
    /\ mode = "diag"
    /\ unitPc = "build"
    /\ unitArgs.added.results < MaxResults
    /\ unitArgs' = [unitArgs EXCEPT
                      !.results = Append(@, IF parsed THEN DiagResult(d, <<>>)
                                            ELSE DiagFailure(d, config)),
                      !.added.results = @ + 1]
    /\ UNCHANGED <<mode, unitPc, fs, diagnosticCollection, fileReads>>
    /\ UnitFrame

DiagAddMessage(m) ==
    /\ mode = "diag"
    /\ unitPc = "build"
    /\ unitArgs.results # <<>>
    /\ unitArgs.added.messages < MaxMessages
    /\ LET k == Len(unitArgs.results)
           last == unitArgs.results[k]
       IN  /\ last.epubCheckResult # Undefined
           /\ unitArgs' = [unitArgs EXCEPT
                  !.results[k] = DiagResult(last.epubDir,
                                    Append(last.epubCheckResult.messages, m)),
                  !.added.messages = @ + 1]
    /\ UNCHANGED <<mode, unitPc, fs, diagnosticCollection, fileReads>>
    /\ UnitFrame

DiagAddLocation(p) ==
    /\ mode = "diag"
    /\ unitPc = "build"
    /\ unitArgs.results # <<>>
    /\ unitArgs.added.locations < MaxLocations
    /\ LET k == Len(unitArgs.results)
           last == unitArgs.results[k]
       IN  /\ last.epubCheckResult # Undefined
           /\ last.epubCheckResult.messages # <<>>
           /\ LET j == Len(last.epubCheckResult.messages)
                  location == [path |-> p,
                               line |-> unitArgs.added.locations + 1,
                               column |-> DiagColumn]
              IN  unitArgs' = [unitArgs EXCEPT
                     !.results[k].epubCheckResult.messages[j].locations =
                         Append(@, location),
                     !.added.locations = @ + 1]
    /\ UNCHANGED <<mode, unitPc, fs, diagnosticCollection, fileReads>>
    /\ UnitFrame

\* updateDiagnostics(results)
UpdateDiagnostics ==
    /\ mode = "diag"
    /\ unitPc = "build"
    /\ unitArgs.passes < MaxPasses
    /\ LET st == MappingPass(fs, unitArgs.results)
       IN  /\ diagnosticCollection' = SetAll(Clear(diagnosticCollection), st.map)
           /\ fileReads' = st.reads
    /\ unitPc' = "done"
    /\ unitArgs' = [unitArgs EXCEPT !.passes = @ + 1,
                                    !.previous = DOMAIN diagnosticCollection]
    /\ UNCHANGED <<mode, fs>>
    /\ UnitFrame

\* the end of handleGenerateAndValidate and handleUnzipAndValidate:
\* updateDiagnostics(results); updateStatusBar(results); showSummary(results)
FinishValidate ==
    /\ mode = "diag"
    /\ unitPc = "build"
    /\ unitArgs.passes < MaxPasses
    /\ LET st == MappingPass(fs, unitArgs.results)
       IN  /\ diagnosticCollection' = SetAll(Clear(diagnosticCollection), st.map)
           /\ fileReads' = st.reads
    /\ unitPc' = "done"
    /\ unitArgs' = [unitArgs EXCEPT !.passes = @ + 1,
                                    !.previous = DOMAIN diagnosticCollection,
                                    !.statusBar = UpdateStatusBar(unitArgs.results),
                                    !.summary = ShowSummary(unitArgs.results)]
    /\ UNCHANGED <<mode, fs>>
    /\ UnitFrame

\* clear()
ClearCall ==
    /\ mode = "diag"
    /\ unitPc = "done"
    /\ diagnosticCollection' = Clear(diagnosticCollection)
    /\ unitPc' = "cleared"
    /\ unitArgs' = [unitArgs EXCEPT !.previous = DOMAIN diagnosticCollection]
    /\ UNCHANGED <<mode, fs, fileReads>>
    /\ UnitFrame

\* the next command starts (statusBar.setRunning()) and collects its batch
DiagNewBatch ==
    /\ mode = "diag"
    /\ unitPc \in {"done", "cleared"}
    /\ unitArgs.passes < MaxPasses
    /\ unitArgs' = [unitArgs EXCEPT !.results = <<>>,
                                    !.statusBar = StatusRunning,
                                    !.summary = Undefined]
    /\ unitPc' = "build"
    /\ fileReads' = <<>>
    /\ UNCHANGED <<mode, fs, diagnosticCollection>>
    /\ UnitFrame

NextDiag ==
    \/ \E d \in DiagProjects, parsed \in BOOLEAN : DiagAddResult(d, parsed)
    \/ \E m \in DiagMessages : DiagAddMessage(m)
    \/ \E p \in LocationPaths : DiagAddLocation(p)
    \/ UpdateDiagnostics
    \/ FinishValidate
    \/ ClearCall
    \/ DiagNewBatch

SpecDiag == InitDiag /\ [][NextDiag]_vars

----------------------------------------------------------------------------
(* Vocabulary of the claims *)

Returned == outcome # Undefined
ProduceArtifact == mode \in {"run", "generateOnly"} /\ save
BackupCreated == protectedPath # Undefined
TimedOutOutcome == ErrMsg(outcome) = "timed out"
TimeoutResult == Result(FALSE, Undefined, TimeoutError(config), Undefined)
ToolNotFoundResult == Result(FALSE, Undefined, JavaNotFoundError(config), Undefined)
CloseHandled == closeCode # "none"
\* the close handler took its timeout branch
TimeoutClose == CloseHandled /\ (timedOutAtClose \/ closeCode = "null")
\* a normal exit was observed before any timeout signal
NormalExitFirst == CloseHandled /\ closeCode # "null" /\ ~timedOutAtClose
OriginalAt(p) == fs[p] = Epub("ORIGINAL")
NewAt(p) == fs[p] = Epub("NEW")

----------------------------------------------------------------------------
(* C1: whenever run(epubDir, save=true) has created a backup, no file is
   left under the hidden backup name once the outcome has been returned,
   on every outcome branch. *)
C1_NoBackupLeftAtReturn ==
    (mode = "run" /\ save /\ BackupCreated /\ Returned)
        => ~ExistsSync(fs, protectedPath)

(* C2: in generateOnly, whenever a backup was created, restoreProtectedEpub
   has been executed for it before the outcome is returned, on every branch
   of the close and error handlers. *)
C2_RestoredBeforeReturn ==
    (mode = "generateOnly" /\ BackupCreated /\ Returned) => restoreCalled

(* C3: after a produce-artifact run that started with a file at the
   canonical path, the original content is at the canonical path, or at a
   disambiguated sibling name while the new artifact holds the canonical
   path; it is never lost or overwritten. *)
C3_OriginalPreserved ==
    (ProduceArtifact /\ original /\ Returned)
        => \/ OriginalAt(Canonical)
           \/ /\ NewAt(Canonical)
              /\ \E p \in SiblingNames : OriginalAt(p)

\* the least "<base> (k)<ext>", k >= 2, at which no file exists
FirstUnused(f, p) ==
    LET free == { k \in 2..(MaxSiblings + 3) : ~ExistsSync(f, Numbered(p, k)) }
    IN  Numbered(p, CHOOSE k \in free : \A j \in free : k <= j)

\* what restoreProtectedEpub(backup, target) is to leave behind, given the
\* file system b it started from
RestoredFrom(b, backup, target) ==
    IF backup # Undefined /\ ExistsSync(b, backup)
    THEN LET dest == IF ExistsSync(b, target) THEN FirstUnused(b, target)
                     ELSE target
         IN  [p \in Paths |-> IF p = dest THEN b[backup]
                              ELSE IF p = backup THEN Absent
                              ELSE b[p]]
    ELSE b

(* C4 as stated: restoreProtectedEpub renames an existing backup to the
   target when it is free, else to the first unused disambiguated name with
   the target untouched; the backup path is then free; an undefined or
   missing backup changes nothing. *)
C4_RestoreRenames ==
    unitPc = "done" =>
        fs = RestoredFrom(unitArgs.before, unitArgs.protectedPath,
                          unitArgs.targetPath)

(* C4 amended: as stated, unless the rename itself fails; then nothing is
   changed and the backup stays under the backup name. *)
C4_RestoreRenamesUnlessFailed ==
    unitPc = "done" =>
        \/ fs = RestoredFrom(unitArgs.before, unitArgs.protectedPath,
                             unitArgs.targetPath)
        \/ fs = unitArgs.before

\* target taken by the new artifact: it keeps NEW, "book (2).epub" gets ORIGINAL
C4_Witness ==
    /\ unitPc = "done"
    /\ ExistsSync(unitArgs.before, unitArgs.protectedPath)
    /\ NewAt(Canonical)
    /\ OriginalAt(Numbered(Canonical, 2))
    /\ ~ExistsSync(fs, unitArgs.protectedPath)

(* C5: every call delivers exactly one outcome: once the child has emitted
   its last event the promise is settled, and a settled outcome is never
   replaced by a later event. *)
C5_ExactlyOneOutcome ==
    /\ [](eventsDone => Returned)
    /\ [][Returned => outcome' = outcome]_vars

(* C6: once the child's normal exit (close with a non-null code, no timeout
   signal before it) has been observed, the outcome is determined and is not
   a Timeout, whatever termination signal arrives afterwards. *)
C6_NormalExitWins ==
    NormalExitFirst => (Returned /\ ~TimedOutOutcome)

\* a timeout signal arrived after the normal exit had settled the outcome
C6_Witness ==
    /\ NormalExitFirst
    /\ settledBy = "close"
    /\ closeCode = "0"
    /\ timedOut
    /\ outcome.success

(* C7: timeout and normal-exit classification exclude each other: a
   timed-out outcome carries neither a parsed result nor an artifact path;
   an outcome the close handler built from a normal exit is never timed out;
   one it built from a timeout is the Timeout outcome, never an exit code
   failure. *)
C7_TimeoutExclusive ==
    /\ TimedOutOutcome =>
          /\ outcome.epubCheckResult = Undefined
          /\ outcome.epubOutputPath = Undefined
          /\ ~outcome.success
    /\ (settledBy = "close" /\ NormalExitFirst) => ~TimedOutOutcome
    /\ (settledBy = "close" /\ TimeoutClose) => outcome = TimeoutResult

\* killed for the timeout, closed with a non-zero code: reported as Timeout
C7_Witness ==
    /\ settledBy = "close"
    /\ timedOutAtClose
    /\ closeCode = "1"
    /\ TimedOutOutcome

(* C8: a spawn that fails with ENOENT yields the ToolNotFound outcome,
   naming the configured Java path and the epubcheck.javaPath setting, also
   after the 'close' event that follows the 'error' event. *)
C8_ToolNotFound ==
    (child = "spawnfail" /\ errorsEmitted > 0) => outcome = ToolNotFoundResult

C8_Witness ==
    /\ child = "spawnfail"
    /\ closeCode = "-2"
    /\ outcome = ToolNotFoundResult
    /\ outcome.error.javaPath = config.javaPath

(* C9 as stated: in run, after a close with the timedOut flag set or a
   null exit code the outcome is Timeout, the temp result file is gone and
   its content was never read. *)
C9_TimeoutDeletesUnread ==
    (mode = "run" /\ TimeoutClose)
        => /\ outcome = TimeoutResult
           /\ ~ExistsSync(fs, jsonTmpFile)
           /\ ~jsonRead

(* C9 amended: in run, after a close with the timedOut flag set or a null
   exit code, the result file's content was never read, the file is gone
   unless the latest attempt to delete it failed, and the outcome is Timeout
   stating the configured seconds unless an earlier 'error' event had
   already delivered its own outcome. *)
C9_TimeoutNeverParses ==
    (mode = "run" /\ TimeoutClose)
        => /\ settledBy = "close" => outcome = TimeoutResult
           /\ settledBy # "close" =>
                 /\ settledBy = "error"
                 /\ ErrMsg(outcome) \in {"Failed to run EPUBCheck", "Java not found"}
           /\ ~jsonRead
           /\ ~unlinkFailed => ~ExistsSync(fs, jsonTmpFile)

\* killed after the tool had completely written its result file
C9_Witness ==
    /\ mode = "run"
    /\ closeCode = "null"
    /\ toolWroteResult
    /\ outcome = TimeoutResult
    /\ outcome.error.timeout = config.timeout
    /\ ~ExistsSync(fs, jsonTmpFile)
    /\ ~jsonRead

(* C10: on every exit path of run the temp result file does not exist when
   the outcome is returned unless deleting it failed, and a failed deletion
   is swallowed: the outcome is the one the handler's branch yields. *)
C10_TmpFileGoneAtReturn ==
    (mode = "run" /\ Returned)
        => /\ ~atReturn.unlinkFailed => ~atReturn.tmpExists
           /\ (settledBy = "close" /\ TimeoutClose) => outcome = TimeoutResult
           /\ (settledBy = "close" /\ NormalExitFirst) =>
                 IF atReturn.typed
                 THEN /\ outcome.epubCheckResult # Undefined
                      /\ outcome.success = ~HasErrors(outcome.epubCheckResult)
                      /\ outcome.error = Undefined
                 ELSE ErrMsg(outcome) = "failed to produce valid output"
           /\ settledBy = "error" =>
                 ErrMsg(outcome) \in {"Java not found", "Failed to run EPUBCheck"}

\* the tool wrote its result file; it was parsed and deleted before the return
C10_Witness ==
    /\ mode = "run"
    /\ Returned
    /\ toolWroteResult
    /\ outcome.epubCheckResult # Undefined
    /\ ~atReturn.unlinkFailed
    /\ ~atReturn.tmpExists

----------------------------------------------------------------------------
(* C11: two invocations of run in flight at once have distinct temp result
   file paths, also when both started in the same millisecond, so that no
   invocation parses or deletes the result file written for the other. *)
InFlight(i) == calls[i].pc = "running"

C11_TmpFilesDistinct ==
    mode = "pair" =>
        /\ \A i \in CallIds, j \in CallIds :
              i # j /\ InFlight(i) /\ InFlight(j)
                  => calls[i].jsonTmpFile # calls[j].jsonTmpFile
        /\ \A i \in CallIds :
              calls[i].parsedFrom \in {0, i} /\ calls[i].deletedFrom \in {0, i}

----------------------------------------------------------------------------
(* C12: two produce-artifact invocations in flight against different project
   directories, also two projects in the same parent directory, never use
   the same backup path, so the protect step of one never renames its
   artifact onto the backup of the other. *)
C12_BackupPathsDistinct ==
    mode = "pair" =>
        /\ \A i \in CallIds, j \in CallIds :
              /\ i # j /\ InFlight(i) /\ InFlight(j)
              /\ calls[i].save /\ calls[j].save
              /\ calls[i].epubDir # calls[j].epubDir
              /\ calls[i].protectedPath # Undefined
              /\ calls[j].protectedPath # Undefined
              => calls[i].protectedPath # calls[j].protectedPath
        /\ \A i \in CallIds : ~calls[i].protectReplaced

----------------------------------------------------------------------------
(* C13: in generateOnly the exit code alone decides success: code 0 is
   success, code 1 a validation failure, any other code an execution
   failure, whether or not an artifact is found on disk. *)
GenNormalExit == mode = "generateOnly" /\ settledBy = "close" /\ NormalExitFirst

C13_ExitCodeAloneDecides ==
    GenNormalExit =>
        /\ closeCode = "0" => outcome.success
        /\ closeCode = "1" => ~outcome.success /\ outcome.error = AbortedError
        /\ closeCode \notin {"0", "1"} =>
              ~outcome.success /\ ErrMsg(outcome) = "failed with exit code"

(* C13 as the code has it: for exit code 0 or 1 the run succeeds exactly
   when an artifact was located; without one, code 1 is reported as an
   aborted generation and code 0 as no artifact generated; every other exit
   code is an execution failure carrying the code and the stderr text. *)
C13_ArtifactDecidesForCodes01 ==
    GenNormalExit =>
        /\ outcome.epubCheckResult = Undefined
        /\ closeCode \in {"0", "1"} =>
              /\ outcome.success = (outcome.epubOutputPath # Undefined)
              /\ outcome.epubOutputPath \in {Undefined, Canonical, Inside}
              /\ outcome.success => outcome.error = Undefined
              /\ ~outcome.success =>
                    ErrMsg(outcome) =
                        IF closeCode = "1"
                        THEN "aborted EPUB generation due to validation errors"
                        ELSE "did not generate an EPUB file"
        /\ closeCode \notin {"0", "1"} =>
              /\ ~outcome.success
              /\ outcome.epubOutputPath = Undefined
              /\ ErrMsg(outcome) = "failed with exit code"
              /\ outcome.error.exitCode = closeCode
              /\ outcome.error.details = stderr

\* exit code 1 with an artifact on disk is a success, ...
C13_Witness ==
    /\ GenNormalExit
    /\ closeCode = "1"
    /\ outcome.success
    /\ outcome.epubOutputPath = Canonical

----------------------------------------------------------------------------
(* C14: in generateOnly, exit code 1 with no artifact inside the project
   directory or at the canonical path gives success = false, no artifact
   path, and the error saying that generation was aborted because of
   validation errors, which is not the message of exit code 0 without an
   artifact. *)
\* No artifact lay inside or at the canonical path when the close handler
\* ran: the child wrote none, and an original that was there had been moved
\* away by the protect step.
NoArtifactAtClose ==
    /\ \A p \in Paths : ~NewAt(p)
    /\ original => BackupCreated

C14_AbortedWithoutArtifact ==
    /\ AbortedError # NotGeneratedError
    /\ mode = "generateOnly" /\ settledBy = "close" /\ NormalExitFirst
         /\ closeCode = "1" /\ NoArtifactAtClose
       => outcome = Result(FALSE, Undefined, AbortedError, Undefined)

C14_Witness ==
    /\ mode = "generateOnly" /\ settledBy = "close" /\ NormalExitFirst
    /\ closeCode = "1" /\ NoArtifactAtClose
    /\ original
    /\ ErrMsg(outcome) = "aborted EPUB generation due to validation errors"

----------------------------------------------------------------------------
(* C15: in run, when the result file parses as a result document, the
   outcome carries the parsed result and success is true exactly when no
   message has severity FATAL or ERROR, whatever the exit code, whatever
   WARNING, USAGE or INFO messages there are, and whether or not an artifact
   was located. *)
RunParsedExit ==
    mode = "run" /\ settledBy = "close" /\ NormalExitFirst /\ atReturn.typed

C15_SuccessIffNoErrorSeverity ==
    RunParsedExit =>
        /\ outcome.epubCheckResult \in ToolJsonOutputs
        /\ outcome.epubCheckResult.parses
        /\ outcome.epubCheckResult.hasMessages
        /\ outcome.success =
              (\A i \in DOMAIN outcome.epubCheckResult.messages :
                  outcome.epubCheckResult.messages[i] \notin {"FATAL", "ERROR"})

\* success with a non-zero exit code, warnings only, and no artifact located
C15_Witness ==
    /\ RunParsedExit
    /\ closeCode = "2"
    /\ save
    /\ outcome.epubOutputPath = Undefined
    /\ outcome.epubCheckResult.messages = <<"WARNING", "INFO">>
    /\ outcome.success

----------------------------------------------------------------------------
(* C16: in run, after a normal exit with the result file missing, not valid
   JSON or not a result document, the outcome is an execution failure
   returned as data (success = false, no parsed result) whose error text
   holds the captured stderr text and the raw exit code. *)
RunInvalidOutputExit ==
    mode = "run" /\ settledBy = "close" /\ NormalExitFirst /\ ~atReturn.typed

\* t is s without the whitespace chunks at its two ends
IsTrimOf(t, s) ==
    \E i \in 0..Len(s), j \in 0..Len(s) :
        /\ i + j <= Len(s)
        /\ t = SubSeq(s, i + 1, Len(s) - j)
        /\ \A k \in 1..i : s[k] = " "
        /\ \A k \in (Len(s) - j + 1)..Len(s) : s[k] = " "
        /\ t # <<>> => t[1] # " " /\ t[Len(t)] # " "

C16_FailureCarriesStderrAndCode ==
    RunInvalidOutputExit =>
        /\ ~outcome.success
        /\ outcome.epubCheckResult = Undefined
        /\ ErrMsg(outcome) = "failed to produce valid output"
        /\ stderr # <<>> => outcome.error.hasDetails
                            /\ IsTrimOf(outcome.error.details, stderr)
        /\ outcome.error.exitCode = closeCode

(* C16 as the code has it: the error text holds the trimmed stderr text when
   any was captured, and the exit code only when it is not zero. *)
C16_FailureCarriesStderrAndNonZeroCode ==
    RunInvalidOutputExit =>
        /\ ~outcome.success
        /\ outcome.epubCheckResult = Undefined
        /\ outcome.epubOutputPath = Undefined
        /\ ErrMsg(outcome) = "failed to produce valid output"
        /\ outcome.error.hasDetails = (stderr # <<>>)
        /\ stderr # <<>> => IsTrimOf(outcome.error.details, stderr)
        /\ outcome.error.exitCode = IF closeCode = "0" THEN "none" ELSE closeCode

\* exit code 0 without a result file: stderr is reported, the exit code is not
C16_Witness ==
    /\ RunInvalidOutputExit
    /\ closeCode = "0"
    /\ ~ExistsSync(fs, jsonTmpFile)
    /\ ~jsonRead
    /\ stderr = <<"E">>
    /\ outcome.error.details = <<"E">>
    /\ outcome.error.exitCode = "none"

----------------------------------------------------------------------------
(* C17: when the locate step finds the new artifact inside the project
   directory it moves it to the canonical path whenever the move is
   possible: afterwards the file is at the canonical path, gone from inside
   the project directory, and the canonical path is reported.  If the move
   fails the artifact stays inside and the inside path is reported.  The
   artifact is never lost. *)
LocateDone == mode = "locate" /\ unitPc = "done"
FoundInside ==
    unitArgs.targetPath # Undefined /\ ExistsSync(unitArgs.before, Inside)

C17_MovedOrKeptInside ==
    (LocateDone /\ FoundInside) =>
        /\ unitArgs.result # Undefined
        /\ fs[unitArgs.result] = Epub("INSIDE")
        /\ IF unitArgs.mvOk
           THEN /\ unitArgs.result = Canonical
                /\ ~ExistsSync(fs, Inside)
           ELSE unitArgs.result = Inside

\* the move failed: the artifact is still inside and that path is reported
C17_Witness ==
    /\ LocateDone
    /\ FoundInside
    /\ ~unitArgs.mvOk
    /\ unitArgs.result = Inside
    /\ fs[Inside] = Epub("INSIDE")

----------------------------------------------------------------------------
(* C18: the locate step follows a fixed priority: an artifact inside the
   project directory is taken first; otherwise a file at the canonical path
   is reported; otherwise, and whenever the target path is undefined,
   undefined is reported.  With no pre-existing artifact and a run that
   produced one, the reported path is the canonical path and no backup file
   remains on disk. *)
ExpectedLocation ==
    IF unitArgs.targetPath = Undefined THEN Undefined
    ELSE IF ExistsSync(unitArgs.before, Inside)
         THEN IF unitArgs.mvOk THEN Canonical ELSE Inside
    ELSE IF ExistsSync(unitArgs.before, Canonical) THEN Canonical
    ELSE Undefined

IsBackupName(p) == p.stem = ".epubcheck-protect-"

\* nothing was at the canonical path before the run, so nothing was
\* protected; the tool wrote its artifact inside or at the canonical path,
\* and a move out of the project directory succeeds
NothingPreExisting ==
    /\ unitArgs.targetPath = Canonical
    /\ unitArgs.protectedPath = Undefined
    /\ \A p \in Paths : IsBackupName(p) => ~ExistsSync(unitArgs.before, p)
    /\ ExistsSync(unitArgs.before, Inside) # ExistsSync(unitArgs.before, Canonical)
    /\ unitArgs.mvOk

C18_LocatePriority ==
    LocateDone =>
        /\ unitArgs.result = ExpectedLocation
        /\ (FoundInside /\ unitArgs.mvOk) => fs[Canonical] = Epub("INSIDE")
        /\ unitArgs.targetPath = Undefined => fs = unitArgs.before
        /\ NothingPreExisting =>
              /\ unitArgs.result = Canonical
              /\ ExistsSync(fs, Canonical)
              /\ \A p \in Paths : IsBackupName(p) => ~ExistsSync(fs, p)

\* files both inside and at the canonical path: the one inside is taken
C18_Witness ==
    /\ LocateDone
    /\ ExistsSync(unitArgs.before, Inside)
    /\ ExistsSync(unitArgs.before, Canonical)
    /\ unitArgs.result = Canonical
    /\ fs[Canonical] = Epub("INSIDE")

----------------------------------------------------------------------------
(* C19: getUniquePath(p) returns a path at which no file exists: p itself
   when p is free, otherwise "<base> (k)<ext>" for the least k >= 2 whose
   name is unused.  The result is determined by the set of existing names
   alone, and the search ends for every finite set of files. *)
UniqueDone == mode = "unique" /\ unitPc = "done"

ExistingNames == { q \in DOMAIN unitArgs.before : ExistsSync(unitArgs.before, q) }

C19_FirstFreeName ==
    UniqueDone =>
        LET p == unitArgs.filePath
            r == unitArgs.result
        IN  /\ r \notin ExistingNames
            /\ fs = unitArgs.before
            /\ IF p \notin ExistingNames
               THEN r = p
               ELSE /\ r = Numbered(p, r.n)
                    /\ r.n >= 2
                    /\ \A j \in 2..(r.n - 1) : Numbered(p, j) \in ExistingNames
                    /\ r.n <= Cardinality(ExistingNames) + 1

\* the file and its first two disambiguated names exist: the third is returned
C19_Witness ==
    /\ UniqueDone
    /\ unitArgs.filePath = Canonical
    /\ {Canonical, Numbered(Canonical, 2), Numbered(Canonical, 3)}
          \subseteq ExistingNames
    /\ unitArgs.result = Numbered(Canonical, 4)

----------------------------------------------------------------------------
(* C20: over consecutive produce-artifact runs on one project, each
   producing a new artifact, starting with a file at the canonical path:
   every run creates exactly one file name that did not exist before, for
   the content it found at the canonical path, and changes no other existing
   file; so after N runs the canonical path holds the newest artifact and
   the N earlier contents lie under N distinct disambiguated names. *)
DisambiguatedNames == { p \in DOMAIN fs : p # Canonical /\ Numbered(p, 0) = Canonical }

C20_EveryRunKeepsEarlier ==
    (mode = "repeat" /\ unitPc = "idle" /\ runs > 0) =>
        LET b == unitArgs.before
            created == { p \in DOMAIN fs : ExistsSync(fs, p) /\ ~ExistsSync(b, p) }
        IN  /\ fs[Canonical] = Epub(runs)
            /\ \E q \in DisambiguatedNames :
                  created = {q} /\ fs[q] = b[Canonical]
            /\ \A p \in DOMAIN fs :
                  (ExistsSync(b, p) /\ p # Canonical) => fs[p] = b[p]
            /\ \A k \in 0..(runs - 1) :
                  \E q \in DisambiguatedNames : fs[q] = Epub(k)

----------------------------------------------------------------------------
(* C21: protectExistingEpub(p), p defined and a file at p: a successful
   protect leaves p free and returns the hidden timestamp-qualified path
   ".epubcheck-protect-<timestamp><ext>" of the same directory, which holds
   the original content; p undefined or no file at p: undefined is returned
   and nothing changes on disk.  Protection is attempted only when an
   artifact is to be produced. *)
ProtectDone == mode = "protect" /\ unitPc = "done"

C21_ProtectMovesAside ==
    ProtectDone =>
        LET b == unitArgs.before
            p == unitArgs.epubPath
            r == unitArgs.result
        IN  IF unitArgs.save /\ p # Undefined /\ ExistsSync(b, p) /\ unitArgs.renameOk
            THEN /\ r = [dir |-> p.dir, stem |-> ".epubcheck-protect-",
                         ts |-> clock, n |-> 0, ext |-> p.ext]
                 /\ fs[r] = b[p]
                 /\ ~ExistsSync(fs, p)
                 /\ \A q \in DOMAIN fs : q \notin {p, r} => fs[q] = b[q]
            ELSE r = Undefined /\ fs = b

\* an existing file was moved to the hidden name
C21_Witness ==
    /\ ProtectDone
    /\ unitArgs.save
    /\ unitArgs.before[Canonical] = Epub("ORIGINAL")
    /\ unitArgs.result = ProtectPath(Canonical, clock)
    /\ fs[unitArgs.result] = Epub("ORIGINAL")
    /\ fs[Canonical] = Absent

----------------------------------------------------------------------------
(* C22: when the protective rename fails the run goes on without a backup:
   the tool is started with the same arguments, the outcome is one of the
   outcomes of a run without a backup, and the failure of the protect step
   is reported nowhere. *)
ProtectFailed == ProduceArtifact /\ original /\ ~BackupCreated

ExpectedArgs ==
    IF mode = "run"
    THEN <<Str("-jar"), Str(config.jarPath), Str("-mode"), Str("exp"), EpubDir,
           Str("--json"), jsonTmpFile>>
           \o (IF save THEN <<Str("--save")>> ELSE <<>>)
    ELSE <<Str("-jar"), Str(config.jarPath), Str("-mode"), Str("exp"), EpubDir,
           Str("--save")>>

OutcomeMessages ==
    {"none", "timed out", "Java not found", "Failed to run EPUBCheck",
     "failed to produce valid output", "failed with exit code",
     "aborted EPUB generation due to validation errors",
     "did not generate an EPUB file"}

C22_ProtectFailureIsSilent ==
    ProtectFailed =>
        /\ child # "none"
        /\ spawned # Undefined
        /\ spawned.args = ExpectedArgs
        /\ ~restoreCalled
        /\ \A p \in Paths : IsBackupName(p) => ~ExistsSync(fs, p)
        /\ Returned =>
              /\ ErrMsg(outcome) \in OutcomeMessages
              /\ (settledBy = "close" /\ TimeoutClose) => outcome = TimeoutResult
              /\ (mode = "run" /\ settledBy = "close" /\ NormalExitFirst)
                    => IF atReturn.typed
                       THEN outcome.epubCheckResult # Undefined
                            /\ outcome.error = Undefined
                       ELSE ErrMsg(outcome) = "failed to produce valid output"

\* the rename failed, the tool ran all the same and its result was parsed
C22_Witness ==
    /\ ProtectFailed
    /\ mode = "run"
    /\ settledBy = "close"
    /\ outcome.success
    /\ outcome.epubCheckResult # Undefined
    /\ outcome.epubOutputPath = Canonical

----------------------------------------------------------------------------
(* C30: run spawns the launcher with exactly
   -jar <jar> -mode exp <projectDir> --json <tempResultFile>, followed by
   --save if and only if save is set; generateOnly with
   -jar <jar> -mode exp <projectDir> --save and no --json; the spawn timeout
   is the configured number of seconds times 1000. *)
C30_SpawnArguments ==
    mode \in {"run", "generateOnly"} =>
        /\ spawned.command = config.javaPath
        /\ spawned.timeout = 1000 * config.timeout
        /\ LET args == spawned.args
           IN  IF mode = "run"
               THEN /\ SubSeq(args, 1, 7) =
                          <<Str("-jar"), Str(config.jarPath), Str("-mode"),
                            Str("exp"), EpubDir, Str("--json"), jsonTmpFile>>
                    /\ Len(args) = IF save THEN 8 ELSE 7
                    /\ save => args[8] = Str("--save")
                    /\ jsonTmpFile = JsonTmpFile(clock)
               ELSE /\ args = <<Str("-jar"), Str(config.jarPath), Str("-mode"),
                                Str("exp"), EpubDir, Str("--save")>>
                    /\ \A i \in DOMAIN args : args[i] # Str("--json")

\* a validation-only run: seven arguments, no --save
C30_Witness ==
    /\ mode = "run"
    /\ ~save
    /\ Len(spawned.args) = 7
    /\ spawned.args[7] = JsonTmpFile(clock)
    /\ spawned.timeout = 30000

----------------------------------------------------------------------------
(* C28: run and generateOnly return every failure as data: once the child's
   events are over (tool not found, timeout, execution failure, validation
   failure, any failed rename / move / delete) the promise is resolved with
   a ValidationResult. *)
IsValidationResult(r) ==
    /\ DOMAIN r = {"success", "epubDir", "epubCheckResult", "error",
                   "epubOutputPath"}
    /\ r.success \in BOOLEAN
    /\ r.epubDir = EpubDir

C28_FailuresReturnedAsData ==
    (mode \in {"run", "generateOnly"} /\ eventsDone)
        => Returned /\ IsValidationResult(outcome)

----------------------------------------------------------------------------
(* C29 as stated: every outcome with success = false carries an error
   string. *)
C29_EveryFailureHasError ==
    (Returned /\ ~outcome.success) => outcome.error # Undefined

(* C29 amended: an outcome with success = false either carries the parsed
   result whose messages hold a FATAL or ERROR (run's validation failure,
   which has no error string), or carries an error string: tool not found
   with the configured path and the setting, timed out with the configured
   seconds and the setting, or one of the execution failures. *)
C29_FailureHasErrorOrMessages ==
    (Returned /\ ~outcome.success) =>
        IF outcome.epubCheckResult # Undefined
        THEN /\ mode = "run"
             /\ outcome.error = Undefined
             /\ \E i \in DOMAIN outcome.epubCheckResult.messages :
                    outcome.epubCheckResult.messages[i] \in {"FATAL", "ERROR"}
        ELSE /\ outcome.error # Undefined
             /\ LET e == outcome.error
                IN  CASE e.msg = "Java not found" ->
                           /\ e.javaPath = config.javaPath
                           /\ e.setting = "epubcheck.javaPath"
                      [] e.msg = "timed out" ->
                           /\ e.timeout = config.timeout
                           /\ e.setting = "epubcheck.timeout"
                      [] e.msg = "Failed to run EPUBCheck" ->
                           e.cause \notin {"ENOENT", "ETIMEDOUT"}
                      [] e.msg = "failed to produce valid output" ->
                           /\ mode = "run"
                           /\ e.hasDetails = (stderr # <<>>)
                      [] e.msg = "failed with exit code" ->
                           /\ mode = "generateOnly"
                           /\ e.exitCode \notin {"0", "1", "null"}
                      [] e.msg \in {"aborted EPUB generation due to validation errors",
                                    "did not generate an EPUB file"} ->
                           mode = "generateOnly"
                      [] OTHER -> FALSE

\* run returns a validation failure: success = false, messages, no error
C29_Witness ==
    /\ mode = "run"
    /\ Returned
    /\ ~outcome.success
    /\ outcome.epubCheckResult # Undefined
    /\ outcome.error = Undefined

----------------------------------------------------------------------------
(* C23: every diagnostic has a non-empty single-line range: the end line is
   the start line and the end column exceeds the start column, for every
   line and column (0 and negative included), the file readable or not,
   also with the start column at or past the end of the line. *)
RangeDone == mode = "range" /\ unitPc = "done"

C23_RangeNonEmpty ==
    RangeDone =>
        LET r == unitArgs.diagnostic.range
        IN  /\ r.end.line = r.start.line
            /\ r.end.character > r.start.character
            /\ r.start.line >= 0
            /\ r.start.character >= 0

\* a readable file, the start column past the end of an empty line
C23_Witness ==
    /\ RangeDone
    /\ fs[RangeFile] = TextFile(<<"x", "\n", "\n", "x">>)
    /\ unitArgs.location.line = 2
    /\ unitArgs.location.column = 3
    /\ unitArgs.diagnostic.range = Range(Position(1, 2), Position(1, 3))

----------------------------------------------------------------------------
(* C24: the range starts at (max(0, L-1), max(0, C-1)); the end column is
   the length of that 0-based line when the content is available, the line
   index lies inside the file and the length exceeds the start column, and
   start column + 1 otherwise.  Line 5, column 3 against a file whose
   line 5 has 40 characters gives (4,2)-(4,40). *)
LineOf(n) == [i \in 1..n |-> "x"]
ExampleLines == Lines(<<LineOf(1), <<>>, LineOf(2), <<>>, LineOf(40)>>)

C24_RangeFromLocation ==
    /\ RangeDone =>
         LET L == unitArgs.location.line
             C == unitArgs.location.column
             r == unitArgs.diagnostic.range
             row == IF L - 1 > 0 THEN L - 1 ELSE 0
             col == IF C - 1 > 0 THEN C - 1 ELSE 0
             text == IF fs[RangeFile] = Absent THEN <<>> ELSE fs[RangeFile].text
             breaks == { i \in 1..Len(text) : text[i] = "\n" }
             inside == fs[RangeFile] # Absent /\ row <= Cardinality(breaks)
             \* the characters of row: those between its two line breaks
             width == Cardinality({ i \in 1..Len(text) :
                         /\ text[i] # "\n"
                         /\ Cardinality({ b \in breaks : b < i }) = row })
         IN  /\ r.start = Position(row, col)
             /\ r.end.line = row
             /\ r.end.character =
                  IF inside /\ width > col THEN width ELSE col + 1
    /\ CreateDiagnostic(RangeMessage, [path |-> <<"a">>, line |-> 5, column |-> 3],
                        ExampleLines).range
         = Range(Position(4, 2), Position(4, 40))

\* the whole second line is underlined
C24_Witness ==
    /\ RangeDone
    /\ fs[RangeFile] = TextFile(<<"\n", "x", "x", "x">>)
    /\ unitArgs.location.line = 2
    /\ unitArgs.location.column = 2
    /\ unitArgs.diagnostic.range = Range(Position(1, 1), Position(1, 3))

----------------------------------------------------------------------------
(* C25: mapSeverity follows the table FATAL->Error, ERROR->Error,
   WARNING->Warning, USAGE->Information, INFO->Hint, anything else->Error,
   and the same severity gets the same level on every call, whatever the
   calls before it. *)
SeverityTable ==
    [s \in SeverityInputs |->
        IF s = "WARNING" THEN "Warning"
        ELSE IF s = "USAGE" THEN "Information"
        ELSE IF s = "INFO" THEN "Hint"
        ELSE "Error"]

C25_SeverityTable ==
    mode = "severity" =>
        /\ \A i \in 1..Len(unitArgs) :
              unitArgs[i].level = SeverityTable[unitArgs[i].severity]
        /\ \A i, j \in 1..Len(unitArgs) :
              unitArgs[i].severity = unitArgs[j].severity
                 => unitArgs[i].level = unitArgs[j].level

\* an unrecognized value mapped twice, with another call in between
C25_Witness ==
    /\ mode = "severity"
    /\ Len(unitArgs) = 3
    /\ unitArgs[1] = [severity |-> "UNKNOWN", level |-> "Error"]
    /\ unitArgs[2] = [severity |-> "INFO", level |-> "Hint"]
    /\ unitArgs[3] = [severity |-> "UNKNOWN", level |-> "Error"]

----------------------------------------------------------------------------
(* C26: one mapping pass emits exactly one diagnostic for every (message,
   location) pair of every result that has a parsed result, filed under
   projectDir/location.path, in message-then-location order per file; a
   message without locations and a result without a parsed result yield
   none. *)
PassDone == mode = "diag" /\ unitPc = "done"

\* the (result, message, location) index triples of the batch
BatchPairs ==
    LET results == unitArgs.results
    IN  { t \in (1..MaxResults) \X (1..MaxMessages) \X (1..MaxLocations) :
            /\ t[1] <= Len(results)
            /\ results[t[1]].epubCheckResult # Undefined
            /\ t[2] <= Len(results[t[1]].epubCheckResult.messages)
            /\ t[3] <= Len(results[t[1]].epubCheckResult.messages[t[2]].locations) }
MessageAt(t) == unitArgs.results[t[1]].epubCheckResult.messages[t[2]]
LocationAt(t) == MessageAt(t).locations[t[3]]
FileRefAt(t) ==
    Append(unitArgs.results[t[1]].epubDir.dir, unitArgs.results[t[1]].epubDir.name)
        \o SelectSeq(LocationAt(t).path, LAMBDA seg : seg # ".")
Precedes(t, u) ==
    \/ t[1] < u[1]
    \/ t[1] = u[1] /\ t[2] < u[2]
    \/ t[1] = u[1] /\ t[2] = u[2] /\ t[3] < u[3]
PairsOf(file) == { t \in BatchPairs : FileRefAt(t) = file }
RankOf(t) == 1 + Cardinality({ u \in PairsOf(FileRefAt(t)) : Precedes(u, t) })

C26_OneDiagnosticPerPair ==
    PassDone =>
        /\ DOMAIN diagnosticCollection =
              { [scheme |-> "file", path |-> FileRefAt(t)] : t \in BatchPairs }
        /\ \A u \in DOMAIN diagnosticCollection :
              Len(diagnosticCollection[u]) = Cardinality(PairsOf(u.path))
        /\ \A t \in BatchPairs :
              LET d == diagnosticCollection[[scheme |-> "file",
                                             path |-> FileRefAt(t)]][RankOf(t)]
              IN  /\ d.code = MessageAt(t).ID
                  /\ d.message[1] = MessageAt(t).message
                  /\ d.range.start.line = LocationAt(t).line - 1
                  /\ d.source = "EPUBCheck"

\* a result without a parsed result, then one whose two messages point into
\* the same file under two spellings
C26_Witness ==
    /\ PassDone
    /\ Len(unitArgs.results) = 2
    /\ unitArgs.results[1].epubCheckResult = Undefined
    /\ Cardinality(BatchPairs) = 2
    /\ \E u \in DOMAIN diagnosticCollection :
          /\ Len(diagnosticCollection[u]) = 2
          /\ diagnosticCollection[u][1].code = "OPF-003"
          /\ diagnosticCollection[u][2].code = "RSC-005"
          /\ diagnosticCollection[u][1].range.start.line = 0
          /\ diagnosticCollection[u][2].range.start.line = 1

----------------------------------------------------------------------------
(* C27: within one pass each distinct file is read at most once, however
   many locations refer to it and also when the read fails; a file that
   cannot be read does not stop the pass, and its diagnostics get the
   narrow range [column, column + 1). *)
C27_ReadOncePerFile ==
    PassDone =>
        /\ \A i, j \in 1..Len(fileReads) : fileReads[i] = fileReads[j] => i = j
        /\ { fileReads[i] : i \in 1..Len(fileReads) } =
              { FileRefAt(t) : t \in BatchPairs }
        /\ \A t \in BatchPairs :
              fs[FileRefAt(t)] = Absent =>
                 LET d == diagnosticCollection[[scheme |-> "file",
                                                path |-> FileRefAt(t)]][RankOf(t)]
                 IN  /\ d.range.start.character = LocationAt(t).column - 1
                     /\ d.range.end.character = d.range.start.character + 1

\* two locations in one unreadable file: one read, two narrow diagnostics
C27_Witness ==
    /\ PassDone
    /\ Len(fileReads) = 1
    /\ fs[fileReads[1]] = Absent
    /\ Cardinality(PairsOf(fileReads[1])) = 2
    /\ \E u \in DOMAIN diagnosticCollection :
          /\ Len(diagnosticCollection[u]) = 2
          /\ \A i \in 1..2 :
                diagnosticCollection[u][i].range.end.character
                   = diagnosticCollection[u][i].range.start.character + 1

----------------------------------------------------------------------------
(* C33: restoreProtectedEpub conserves the backup's content whatever
   renames fail: afterwards the original content is at exactly one of the
   backup path, the canonical path or a disambiguated name, and no file
   that existed before the call has been overwritten. *)
RestoreDone == mode = "unit" /\ unitPc = "done"
HoldersOf(f, content) == { p \in DOMAIN f : f[p] = content }

C33_RestoreConservesBackup ==
    RestoreDone =>
        LET b == unitArgs.before
            backup == ProtectPath(Canonical, clock)
        IN  /\ Cardinality(HoldersOf(fs, Epub("ORIGINAL")))
                 = Cardinality(HoldersOf(b, Epub("ORIGINAL")))
            /\ HoldersOf(fs, Epub("ORIGINAL"))
                 \subseteq {backup, Canonical} \cup SiblingNames
            /\ \A p \in DOMAIN b :
                  (ExistsSync(b, p) /\ p # backup) => fs[p] = b[p]
            /\ (unitArgs.protectedPath = Undefined) => fs = b

\* the first rename fails with the target taken: the backup stays where it is
C33_Witness ==
    /\ RestoreDone
    /\ unitArgs.protectedPath # Undefined
    /\ unitArgs.before[Canonical] = Epub("NEW")
    /\ fs[Canonical] = Epub("NEW")
    /\ fs[unitArgs.protectedPath] = Epub("ORIGINAL")
    /\ fs = unitArgs.before

----------------------------------------------------------------------------
(* C34: when the locate step moves an artifact out of the project directory
   the canonical path is free, so the move overwrites nothing: neither the
   user's original left there by a failed protect step nor an artifact the
   tool wrote there. *)
C34_MoveOntoFreePath ==
    (LocateDone /\ FoundInside /\ unitArgs.mvOk) =>
        /\ ~ExistsSync(unitArgs.before, Canonical)
        /\ \A c \in {"TARGET", "ORIGINAL", "OTHER"} :
              Cardinality(HoldersOf(fs, Epub(c)))
                 = Cardinality(HoldersOf(unitArgs.before, Epub(c)))

----------------------------------------------------------------------------
(* C35: whenever run or generateOnly reports an artifact path, a file is at
   that path when the outcome is returned and the tool wrote it during this
   run; a file that was there before the run is never reported as the
   generated artifact and never makes generateOnly report success. *)
C35_ReportedArtifactIsNew ==
    Returned =>
        /\ outcome.epubOutputPath # Undefined => NewAt(outcome.epubOutputPath)
        /\ (mode = "generateOnly" /\ outcome.success)
              => \E p \in {Canonical, Inside} : NewAt(p)

----------------------------------------------------------------------------
(* C32: run(epubDir, save = false) leaves artifacts alone: it performs no
   protect, locate or restore step, no step of it changes a file at the
   canonical path, inside the project directory, under a backup name or a
   disambiguated name, and the artifact path it returns is undefined. *)
ArtifactPaths == { p \in Paths : p.ext = ".epub" }
ArtifactFiles(f) == [p \in ArtifactPaths |-> f[p]]
ValidateOnly == mode = "run" /\ ~save

C32_ValidateOnlyTouchesNothing ==
    /\ [](ValidateOnly =>
            /\ defaultEpubPath = Undefined
            /\ protectedPath = Undefined
            /\ ~restoreCalled
            /\ (Returned => outcome.epubOutputPath = Undefined))
    /\ [][(mode' = "run" /\ ~save') => ArtifactFiles(fs') = ArtifactFiles(fs)]_vars

\* a validation-only run returned its parsed result with the user's artifact
\* still at the canonical path
C32_Witness ==
    /\ ValidateOnly
    /\ Returned
    /\ outcome.epubCheckResult # Undefined
    /\ original
    /\ OriginalAt(Canonical)

----------------------------------------------------------------------------
(* C39: after any sequence of updateDiagnostics and clear calls the
   collection holds exactly the diagnostics of the batch of the latest
   updateDiagnostics call, and nothing after a clear or for a batch without
   located messages: no diagnostic of an earlier batch survives, also for
   files without diagnostics in the latest batch. *)
Cleared == mode = "diag" /\ unitPc = "cleared"

\* what the latest batch asks for, per file: the (code, line) of each pair
\* in batch order
WantedFor(file) ==
    [r \in 1..Cardinality(PairsOf(file)) |->
        LET t == CHOOSE u \in PairsOf(file) : RankOf(u) = r
        IN  <<MessageAt(t).ID, LocationAt(t).line - 1>>]
HeldFor(u) ==
    [r \in 1..Len(diagnosticCollection[u]) |->
        <<diagnosticCollection[u][r].code,
          diagnosticCollection[u][r].range.start.line>>]

C39_OnlyLatestBatch ==
    /\ PassDone =>
          /\ \A u \in DOMAIN diagnosticCollection :
                /\ PairsOf(u.path) # {}
                /\ HeldFor(u) = WantedFor(u.path)
          /\ \A t \in BatchPairs :
                [scheme |-> "file", path |-> FileRefAt(t)]
                    \in DOMAIN diagnosticCollection
          /\ BatchPairs = {} => diagnosticCollection = <<>>
    /\ Cleared => DOMAIN diagnosticCollection = {}

\* a second pass: the file of the first batch has no diagnostics in the
\* second one and is gone from the collection
C39_Witness ==
    /\ PassDone
    /\ unitArgs.passes = 2
    /\ unitArgs.previous # {}
    /\ DOMAIN diagnosticCollection # {}
    /\ unitArgs.previous \cap DOMAIN diagnosticCollection = {}

----------------------------------------------------------------------------
(* C36: the summary 'Validation passed with no errors or warnings' is shown
   only if every project of the batch has a parsed result and no message is
   an error or a warning; it is never shown for a batch for which the
   status bar is set to the error state. *)
Reported == mode = "diag" /\ unitPc = "done" /\ unitArgs.summary # Undefined

C36_PassedOnlyIfAllValidated ==
    (Reported /\ unitArgs.summary.passed) =>
        /\ \A k \in 1..Len(unitArgs.results) :
              unitArgs.results[k].epubCheckResult # Undefined
        /\ \A t \in BatchPairs :
              MessageAt(t).severity \notin {"FATAL", "ERROR", "WARNING"}
        /\ unitArgs.statusBar.state # "error"

----------------------------------------------------------------------------
(* C37: the error and warning totals of countMessages equal the numbers of
   Error and of Warning diagnostics that updateDiagnostics publishes for the
   same batch, also with messages without locations. *)
Published(level) ==
    UNION { { <<u, r>> : r \in { q \in 1..Len(diagnosticCollection[u]) :
                                    diagnosticCollection[u][q].severity = level } } :
            u \in DOMAIN diagnosticCollection }

C37_TotalsMatchProblems ==
    PassDone =>
        /\ CountMessages(unitArgs.results).totalErrors
              = Cardinality(Published("Error"))
        /\ CountMessages(unitArgs.results).totalWarnings
              = Cardinality(Published("Warning"))

----------------------------------------------------------------------------
(* The command handlers of the extension.  A handler is an async function:
   it runs to its next await, and between two awaits any other registered
   command may be invoked (command palette, context menu, status bar click).
   calls[c] is the position of invocation c of a command. *)
MaxCommands == 2
MaxBatch == 2

CommandIds == 1..MaxCommands
CommandKinds == {"generateAndValidate", "generateOnly"}

\* the directories resolveEpubDirs can return: none, or some in any order
Batches ==
    { b \in UNION { [1..n -> PairProjects] : n \in 0..MaxBatch } :
        \A j, k \in 1..Len(b) : j # k => b[j] # b[k] }

NoCommand ==
    [pc |-> "none", kind |-> Undefined, epubDirs |-> <<>>, i |-> 0,
     results |-> 0]

InitCommands ==
    /\ config \in { c \in Configs : c.javaPath = "java" }
    /\ clock = 1
    /\ mode = "commands"
    /\ unitPc = "off"
    /\ unitArgs = Undefined
    /\ original = FALSE
    /\ runs = 0
    /\ Idle
    /\ calls = [c \in CommandIds |-> NoCommand]
    /\ fs = [p \in PairPaths |-> Absent]

CommandFrame ==
    UNCHANGED <<config, clock, fs, mode, save, jsonTmpFile, defaultEpubPath,
                protectedPath, child, errorsEmitted, closeCode, eventsDone,
                stderr, timedOut, outcome, settledBy, timedOutAtClose,
                jsonRead, unlinkFailed, restoreCalled, original,
                toolWroteResult, atReturn, unitPc, unitArgs, runs, spawned,
                diagnosticCollection, fileReads>>

\* a registered command is invoked: the handler runs to
\* await Configuration.validateJarPath() / await resolveEpubDirs(uri)
Invoke(c, kind) ==
    /\ mode = "commands"
    /\ calls[c].pc = "none"
    /\ calls' = [calls EXCEPT ![c] = [@ EXCEPT !.pc = "resolving", !.kind = kind]]
    /\ CommandFrame

\* resolveEpubDirs returns: nothing to do, or withProgress is called
Resolved(c, epubDirs) ==
    /\ mode = "commands"
    /\ calls[c].pc = "resolving"
    /\ calls' = [calls EXCEPT ![c] =
                    IF Len(epubDirs) = 0
                    THEN [@ EXCEPT !.pc = "done"]
                    ELSE [@ EXCEPT !.pc = "progress", !.epubDirs = epubDirs]]
    /\ CommandFrame

\* the progress task starts: the first iteration, up to
\* await EpubCheckRunner.run(dir, true) / await EpubCheckRunner.generateOnly(dir)
TaskStarts(c) ==
    /\ mode = "commands"
    /\ calls[c].pc = "progress"
    /\ calls' = [calls EXCEPT ![c] = [@ EXCEPT !.pc = "awaiting", !.i = 1]]
    /\ CommandFrame

\* the awaited run returns its outcome: results.push(result), then the next
\* iteration up to its await, or the end of the handler
RunReturns(c) ==
    /\ mode = "commands"
    /\ calls[c].pc = "awaiting"
    /\ calls' = [calls EXCEPT ![c] =
                    IF calls[c].i < Len(calls[c].epubDirs)
                    THEN [@ EXCEPT !.i = @ + 1, !.results = @ + 1]
                    ELSE [@ EXCEPT !.pc = "done", !.results = @ + 1]]
    /\ CommandFrame

NextCommands ==
    \/ \E c \in CommandIds, kind \in CommandKinds : Invoke(c, kind)
    \/ \E c \in CommandIds, b \in Batches : Resolved(c, b)
    \/ \E c \in CommandIds : TaskStarts(c)
    \/ \E c \in CommandIds : RunReturns(c)

SpecCommands == InitCommands /\ [][NextCommands]_vars

\* the runs in flight: the invocation and the project directory of each
RunsInFlight ==
    { <<c, calls[c].epubDirs[calls[c].i]>> :
        c \in { k \in CommandIds : calls[k].pc = "awaiting" } }

(* C31: at most one external tool run is in flight at any time, also across
   command invocations, so two runs never operate on the same project
   directory at once. *)
C31_AtMostOneRunInFlight ==
    mode = "commands" =>
        /\ Cardinality(RunsInFlight) <= 1
        /\ \A x, y \in RunsInFlight : x[2] = y[2] => x = y

----------------------------------------------------------------------------
(* The Unzip-and-Validate command: for each .epub file in turn, extract it
   with the archive utility, delete the file if configured, validate the
   extracted directory.  unitArgs holds the handler's locals, the pending
   extraction and, per file handled, a record of what happened to it. *)
MaxEpubFiles == 2

Directory == [kind |-> "dir"]

\* the .epub files findEpubFiles can return
EpubFiles ==
    { GetDefaultEpubPath(EpubDir),
      GetDefaultEpubPath([dir |-> <<"parent">>, name |-> "album"]) }

\* path.join(path.dirname(epubPath), path.basename(epubPath, '.epub'))
DirPathOf(epubPath) == [epubPath EXCEPT !.ext = ""]

UnzipPaths ==
    EpubFiles
      \cup UNION { {DirPathOf(p)} \cup { Numbered(DirPathOf(p), k) : k \in 2..3 }
                   : p \in EpubFiles }

UnzipBatches ==
    { b \in UNION { [1..n -> EpubFiles] : n \in 0..MaxEpubFiles } :
        \A j, k \in 1..Len(b) : j # k => b[j] # b[k] }

\* getUniqueDirPath(dirPath)
GetUniqueDirPath(f, dirPath) ==
    IF ~ExistsSync(f, dirPath) THEN dirPath ELSE UniqueFrom(f, dirPath, 2)

NoProc ==
    [outputDir |-> Undefined, spawned |-> FALSE, errored |-> FALSE,
     closed |-> FALSE, settled |-> FALSE, value |-> Undefined,
     settledBy |-> "none", code |-> "none"]

\* extract(epubPath) up to the promise it returns; mkdirOk: fs.mkdirSync
\* does not throw
ExtractSync(f, epubPath, mkdirOk) ==
    LET outputDir == GetUniqueDirPath(f, DirPathOf(epubPath))
    IN  IF mkdirOk
        THEN [fs |-> [f EXCEPT ![outputDir] = Directory],
              proc |-> [NoProc EXCEPT !.outputDir = outputDir, !.spawned = TRUE]]
        ELSE [fs |-> f,
              proc |-> [NoProc EXCEPT !.outputDir = outputDir, !.settled = TRUE,
                                      !.settledBy = "mkdir"]]

\* Mutant: the close handler resolves the output directory whatever the code.
ExtractCloseValueAnyCode(code, outputDir) == outputDir

\* proc.on('close'): the value the promise is resolved with
ExtractCloseValue(code, outputDir) ==
    IF code = "0" THEN outputDir ELSE Undefined

InitUnzip ==
    /\ config \in { c \in Configs : c.javaPath = "java" }
    /\ clock = 1
    /\ mode = "unzip"
    /\ unitPc = "none"
    /\ original = FALSE
    /\ calls = Undefined
    /\ runs = 0
    /\ Idle
    /\ \E taken \in SUBSET EpubFiles :
          fs = [p \in UnzipPaths |->
                  IF p \in EpubFiles THEN Epub("ORIGINAL")
                  ELSE IF \E e \in taken : p = DirPathOf(e) THEN Directory
                  ELSE Absent]
    /\ unitArgs = [epubFiles |-> <<>>, i |-> 0, results |-> 0, proc |-> NoProc,
                   log |-> <<>>]

UnzipFrame ==
    /\ UNCHANGED <<mode, diagnosticCollection, fileReads>>
    /\ UnitFrame

\* handleUnzipAndValidate up to the loop
UnzipInvoke(epubFiles) ==
    /\ mode = "unzip"
    /\ unitPc = "none"
    /\ unitPc' = IF Len(epubFiles) = 0 THEN "done" ELSE "iterate"
    /\ unitArgs' = [unitArgs EXCEPT !.epubFiles = epubFiles, !.i = 1]
    /\ UNCHANGED fs
    /\ UnzipFrame

\* an iteration starts: up to await EpubExtractor.extract(epubFile)
ExtractCall(mkdirOk) ==
    /\ mode = "unzip"
    /\ unitPc = "iterate"
    /\ unitArgs.i <= Len(unitArgs.epubFiles)
    /\ LET e == ExtractSync(fs, unitArgs.epubFiles[unitArgs.i], mkdirOk)
       IN  /\ fs' = e.fs
           /\ unitArgs' = [unitArgs EXCEPT !.proc = e.proc]
    /\ unitPc' = "extracting"
    /\ UnzipFrame

\* proc.on('error'): resolve(undefined)
ExtractOnError ==
    /\ mode = "unzip"
    /\ unitPc = "extracting"
    /\ unitArgs.proc.spawned
    /\ ~unitArgs.proc.errored
    /\ ~unitArgs.proc.closed
    /\ unitArgs' = [unitArgs EXCEPT !.proc =
          IF @.settled THEN [@ EXCEPT !.errored = TRUE]
          ELSE [@ EXCEPT !.errored = TRUE, !.settled = TRUE,
                         !.value = Undefined, !.settledBy = "error"]]
    /\ UNCHANGED <<fs, unitPc>>
    /\ UnzipFrame

\* proc.on('close', code)
ExtractOnClose(code) ==
    /\ mode = "unzip"
    /\ unitPc = "extracting"
    /\ unitArgs.proc.spawned
    /\ ~unitArgs.proc.closed
    /\ unitArgs' = [unitArgs EXCEPT !.proc =
          IF @.settled THEN [@ EXCEPT !.closed = TRUE]
          ELSE [@ EXCEPT !.closed = TRUE, !.settled = TRUE,
                         !.value = ExtractCloseValue(code, unitArgs.proc.outputDir),
                         !.settledBy = "close", !.code = code]]
    /\ UNCHANGED <<fs, unitPc>>
    /\ UnzipFrame

\* the await returns: failure message and continue, or the optional delete
\* and up to await EpubCheckRunner.run(extractedDir, false)
\* deleteSetting: Configuration.getDeleteEpubAfterUnzip(); unlinkOk:
\* fs.unlinkSync does not throw
ExtractReturns(deleteSetting, unlinkOk) ==
    /\ mode = "unzip"
    /\ unitPc = "extracting"
    /\ unitArgs.proc.settled
    /\ LET epubFile == unitArgs.epubFiles[unitArgs.i]
           extractedDir == unitArgs.proc.value
           entry == [epubFile |-> epubFile, extractedDir |-> extractedDir,
                     settledBy |-> unitArgs.proc.settledBy,
                     code |-> unitArgs.proc.code,
                     deleteSetting |-> deleteSetting, deleted |-> FALSE,
                     runStarted |-> FALSE]
       IN  IF extractedDir = Undefined
           THEN /\ fs' = fs
                /\ unitPc' = "iterate"
                /\ unitArgs' = [unitArgs EXCEPT !.i = @ + 1,
                                                !.log = Append(@, entry)]
           ELSE /\ fs' = IF deleteSetting /\ unlinkOk
                         THEN [fs EXCEPT ![epubFile] = Absent] ELSE fs
                /\ unitPc' = "validating"
                /\ unitArgs' = [unitArgs EXCEPT !.log = Append(@,
                      [entry EXCEPT !.deleted = deleteSetting /\ unlinkOk,
                                    !.runStarted = TRUE])]
    /\ UnzipFrame

\* the awaited run returns: results.push(result), next iteration
UnzipRunReturns ==
    /\ mode = "unzip"
    /\ unitPc = "validating"
    /\ unitPc' = "iterate"
    /\ unitArgs' = [unitArgs EXCEPT !.i = @ + 1, !.results = @ + 1]
    /\ UNCHANGED fs
    /\ UnzipFrame

\* after the loop: updateDiagnostics, updateStatusBar, showSummary
UnzipFinish ==
    /\ mode = "unzip"
    /\ unitPc = "iterate"
    /\ unitArgs.i > Len(unitArgs.epubFiles)
    /\ unitPc' = "done"
    /\ UNCHANGED <<fs, unitArgs>>
    /\ UnzipFrame

NextUnzip ==
    \/ \E b \in UnzipBatches : UnzipInvoke(b)
    \/ \E mkdirOk \in BOOLEAN : ExtractCall(mkdirOk)
    \/ ExtractOnError
    \/ \E code \in CloseCodes : ExtractOnClose(code)
    \/ \E deleteSetting, unlinkOk \in BOOLEAN : ExtractReturns(deleteSetting, unlinkOk)
    \/ UnzipRunReturns
    \/ UnzipFinish

SpecUnzip == InitUnzip /\ [][NextUnzip]_vars

ExtractionFailed(entry) == entry.extractedDir = Undefined

(* C38: in Unzip-and-Validate the .epub file is deleted only after its
   extraction reported success (the archive utility closed with exit code
   0, before any error event) and only when deletion is configured; when
   extraction fails (non-zero exit, spawn error, output directory not
   created) the file is left in place and no run is started for it. *)
C38_DeleteOnlyAfterExtraction ==
    mode = "unzip" =>
        \A k \in 1..Len(unitArgs.log) :
            LET entry == unitArgs.log[k]
            IN  /\ entry.deleted =>
                      /\ entry.settledBy = "close"
                      /\ entry.code = "0"
                      /\ entry.deleteSetting
                /\ (entry.settledBy \in {"mkdir", "error"}
                      \/ (entry.settledBy = "close" /\ entry.code # "0")) =>
                      /\ ExtractionFailed(entry)
                      /\ ~entry.deleted
                      /\ ~entry.runStarted
                      /\ ExistsSync(fs, entry.epubFile)
                /\ ~ExistsSync(fs, entry.epubFile) => entry.deleted

C38_Witness ==
    /\ mode = "unzip"
    /\ unitPc = "done"
    /\ \E j, k \in 1..Len(unitArgs.log) :
          /\ unitArgs.log[j].deleted
          /\ ~ExistsSync(fs, unitArgs.log[j].epubFile)
          /\ ExtractionFailed(unitArgs.log[k])
          /\ unitArgs.log[k].settledBy = "close"

====
